---- MODULE Spec2Model ----
(***************************************************************************)
(* A model of iceaxe: the schema object model (schemas/db_stubs.py), the   *)
(* migration planner that drives it, the query builder (queries.py) and    *)
(* the connection wrapper (session.py).                                    *)
(*                                                                         *)
(* Each part has its own specification over its own variables:             *)
(*   SpecMerge    DBObject.merge / DBType.merge on drawn operands          *)
(*   SpecPlanner  delegate -> order_db_objects -> build_actions            *)
(*   SpecBuilder  QueryBuilder calls on a heap of builders and lists       *)
(*   SpecChain    the same, for a caller that keeps only the last result   *)
(*   SpecConn     DBConnection.transaction / insert / update               *)
(*   SpecFunc     FunctionBuilder calls on FunctionMetadata objects        *)
(*   SpecExec     DBConnection.exec of a SELECT builder                    *)
(*   SpecCompare  the comparison methods of a column                       *)
(*   SpecNode     create / migrate / destroy of one schema node            *)
(*   SpecCache    lru_cache_async (io.py): callers of a cached coroutine    *)
(***************************************************************************)
EXTENDS Integers, Sequences, FiniteSets, TLC

VARIABLES
    m_ops,          \* merge: the three operands <<a, b, c>>
    m_out,          \* merge: the results of the merges made on them
    m_pc            \* merge: "start" | "done"

VARIABLES
    prev_schema,    \* planner: the previous list of table descriptions
    next_schema,    \* planner: the next list of table descriptions
    db_prev,        \* planner: delegate(prev_schema), <<node, deps>> pairs
    db_next,        \* planner: delegate(next_schema)
    ord_prev,       \* planner: order_db_objects(db_prev), merged nodes in order
    ord_next,       \* planner: order_db_objects(db_next)
    actions,        \* planner: the recorder's dry_run_actions
    pl_pc           \* planner: "start" | "delegated" | "ordered" | "done" | "error"

VARIABLES
    heap,           \* builder: the Python lists, by identity (index)
    builders,       \* builder: the QueryBuilder objects the caller holds
    local_name,     \* builder: local_name of each FunctionMetadata object
    style,          \* builder: "branch" (results kept beside the receiver)
                    \*          or "chain" (q = q.where(...): receiver dropped)
    ncalls,         \* builder: calls made so far
    last,           \* builder: the last call: its name, receiver, outcome
    born            \* builder: what build() gave for each builder when it
                    \*          was returned to the caller

VARIABLES
    tasks,          \* connection: the coroutines that use the connection
    in_transaction, \* connection: DBConnection.in_transaction
    conn_tx,        \* connection: the driver transactions that are open,
                    \*             the innermost last
    frames,         \* connection: each coroutine's stack of blocks and calls
    objs,           \* connection: the table objects in memory
    sent,           \* connection: the statements executed so far
    committed,      \* connection: the statements whose effect is durable
    calls,          \* connection: the insert and update calls made so far
    faulted,        \* connection: the database has failed once (a BEGIN or
                    \*             a statement that raised)
    entered         \* connection: the transaction() blocks the caller entered

VARIABLES
    metas,          \* functions: the FunctionMetadata objects, by identity
    f_call          \* functions: the last FunctionBuilder call: its number,
                    \*            its argument and its result (objects' indices)

VARIABLES
    x_query,        \* exec: the builder the caller holds (its lists included)
    x_selects,      \* exec: the select() calls made on it
    x_values,       \* exec: the rows conn.fetch returned
    x_result        \* exec: what exec returned

VARIABLES
    compared        \* comparison: the last comparison method called, its
                    \*             operands and what it returned

VARIABLES
    node_call      \* nodes: the last node operation called, its operands and the recorder before and after

VARIABLES
    lc_cache,       \* io: the entries of the lru_cache, least recently used first
    lc_futures,     \* io: the futures of ensure_future, in the order of their start
    lc_callers     \* io: each caller, the future it was handed and what awaiting it gave

mergeVars == <<m_ops, m_out, m_pc>>
builderVars == <<heap, builders, local_name, style, ncalls, last, born>>
connVars == <<tasks, in_transaction, conn_tx, frames, objs, sent, committed,
              calls, faulted, entered>>
plannerVars == <<prev_schema, next_schema, db_prev, db_next, ord_prev, ord_next,
                 actions, pl_pc>>
funcVars == <<metas, f_call>>
execVars == <<x_query, x_selects, x_values, x_result>>
compareVars == <<compared>>
nodeVars == <<node_call>>
cacheVars == <<lc_cache, lc_futures, lc_callers>>
vars == <<mergeVars, plannerVars, builderVars, connVars, funcVars, execVars,
          compareVars,
          nodeVars,
          cacheVars>>

\* Each part of the model leaves the other parts as they are.
OnlyMerge == UNCHANGED <<cacheVars, nodeVars, compareVars, execVars, plannerVars, builderVars, connVars, funcVars>>
OnlyPlanner == UNCHANGED <<cacheVars, nodeVars, compareVars, execVars, mergeVars, builderVars, connVars, funcVars>>
OnlyBuilder == UNCHANGED <<cacheVars, nodeVars, compareVars, execVars, mergeVars, plannerVars, connVars, funcVars>>
OnlyConn == UNCHANGED <<cacheVars, nodeVars, compareVars, execVars, mergeVars, plannerVars, builderVars, funcVars>>
OnlyFunc == UNCHANGED <<cacheVars, nodeVars, compareVars, execVars, mergeVars, plannerVars, builderVars, connVars>>
OnlyExec == UNCHANGED <<cacheVars, nodeVars, compareVars, mergeVars, plannerVars, builderVars, connVars, funcVars>>
OnlyCompare == UNCHANGED <<cacheVars, nodeVars, mergeVars, plannerVars, builderVars, connVars, funcVars, execVars>>
OnlyNode == UNCHANGED <<cacheVars, mergeVars, builderVars, connVars, plannerVars, funcVars, execVars, compareVars>>
OnlyCache == UNCHANGED <<mergeVars, builderVars, connVars, plannerVars, funcVars, execVars, compareVars, nodeVars>>

(***************************************************************************)
(* Bounds and input universes.                                             *)
(***************************************************************************)
\* Tables per schema.
MaxTables == 2
\* Tables whose columns may reference one enum in the merge operands.
NumRefTables == 2
\* Builders the caller holds at once (branch style).
MaxBuilders == 3
\* Calls in one chain (chain style).
MaxCalls == 4
\* insert and update calls on the connection.
MaxDBCalls == 2
\* transaction() blocks entered by the caller.
MaxBlocks == 2
\* FunctionBuilder calls made by the caller
MaxFunctionCalls == 3
\* select() calls made on the builder given to exec, and rows fetched
MaxSelects == 2
MaxRows == 2

TableNames == <<"model1", "model2", "model3">>

\* sorted() over the names and enum values of the model, in Python's
\* string order.
NameOrder == <<"A", "B", "C", "animal", "id", "kind", "name", "value_a", "value_b",
               "was_nullable">>

RECURSIVE SortedFrom(_, _)
SortedFrom(order, S) ==
    IF order = <<>> THEN <<>>
    ELSE IF Head(order) \in S
         THEN <<Head(order)>> \o SortedFrom(Tail(order), S)
         ELSE SortedFrom(Tail(order), S)

sorted(S) == SortedFrom(NameOrder, S)

Range(s) == {s[i] : i \in 1..Len(s)}

(***************************************************************************)
(* Schema object model: db_stubs.py.  Nodes are frozen records.            *)
(***************************************************************************)
DBTable(table_name) == [kind |-> "table", table_name |-> table_name]

\* column_type is a ColumnType or a DBTypePointer
ColumnType(name) == [ptr |-> FALSE, name |-> name]
DBTypePointer(name) == [ptr |-> TRUE, name |-> name]

DBColumn(table_name, column_name, column_type, column_is_list, nullable, autoincrement) ==
    [kind |-> "column", table_name |-> table_name, column_name |-> column_name,
     column_type |-> column_type, column_is_list |-> column_is_list,
     nullable |-> nullable, autoincrement |-> autoincrement]

DBType(name, values, reference_columns) ==
    [kind |-> "type", name |-> name, values |-> values,
     reference_columns |-> reference_columns]

DBConstraint(table_name, constraint_name, columns, constraint_type, fk, check) ==
    [kind |-> "constraint", table_name |-> table_name,
     constraint_name |-> constraint_name, columns |-> columns,
     constraint_type |-> constraint_type, foreign_key_constraint |-> fk,
     check_constraint |-> check]

\* representation(): the key of a node.  The source builds strings
\* ("t", "t.c", "t.['a', 'b'].PRIMARY_KEY"); the tuples below are equal
\* exactly when those strings are, a table and a type of one name included.
representation(n) ==
    CASE n.kind = "table" -> <<n.table_name>>
      [] n.kind = "type" -> <<n.name>>
      [] n.kind = "column" -> <<n.table_name, ".", n.column_name>>
      [] n.kind = "constraint" ->
            <<n.table_name, ".", sorted(n.columns), ".", n.constraint_type>>

\* A raised ValueError, in place of a returned node.
ValueError == [kind |-> "ValueError"]

DBObject_merge_returns_self(self, other) == self

\* DBObject.merge: equal or raise; returns self.
DBObject_merge(self, other) ==
    IF self # other THEN ValueError ELSE self

DBType_merge_keeps_own_columns(self, other) ==
    IF self.name # other.name \/ self.values # other.values
    THEN ValueError
    ELSE DBType(self.name, self.values, self.reference_columns)

DBType_merge_ignores_values(self, other) ==
    IF self.name # other.name
    THEN ValueError
    ELSE DBType(self.name, self.values,
                self.reference_columns \cup other.reference_columns)

\* DBType.merge: same name and values or raise; unions reference_columns.
DBType_merge(self, other) ==
    IF self.name # other.name \/ self.values # other.values
    THEN ValueError
    ELSE DBType(self.name, self.values,
                self.reference_columns \cup other.reference_columns)

\* Method dispatch of self.merge(other).
merge(self, other) ==
    IF self.kind = "type" /\ other.kind = "type"
    THEN DBType_merge(self, other)
    ELSE DBObject_merge(self, other)

(***************************************************************************)
(* SpecMerge: merge applied to drawn operands.                             *)
(***************************************************************************)
RefUniverse == {<<TableNames[i], "kind">> : i \in 1..NumRefTables}

TypeOperands ==
    {DBType(n, v, r) : n \in {"e", "f"}, v \in {{"A"}, {"A", "B"}},
                       r \in SUBSET RefUniverse}

ObjectOperands ==
    {DBTable(t) : t \in {"model1", "model2"}}
    \cup {DBColumn("model1", c, ColumnType(ty), FALSE, nl, FALSE) :
             c \in {"id", "name"}, ty \in {"INTEGER", "VARCHAR"}, nl \in BOOLEAN}

\* a.merge(b) where a raised: the exception propagates.
mergeChain(x, y) == IF x.kind = "ValueError" \/ y.kind = "ValueError"
                    THEN ValueError ELSE merge(x, y)

NoResults == [ab |-> ValueError, ba |-> ValueError, ab_c |-> ValueError,
              a_bc |-> ValueError, done |-> FALSE]

MergeInit ==
    /\ m_ops \in (TypeOperands \X TypeOperands \X TypeOperands)
                 \cup (ObjectOperands \X ObjectOperands \X ObjectOperands)
    /\ m_out = NoResults
    /\ m_pc = "start"

\* a.merge(b), b.merge(a), a.merge(b).merge(c), a.merge(b.merge(c))
DoMerge ==
    /\ m_pc = "start"
    /\ LET a == m_ops[1]
           b == m_ops[2]
           c == m_ops[3]
       IN m_out' = [ab |-> merge(a, b), ba |-> merge(b, a),
                    ab_c |-> mergeChain(merge(a, b), c),
                    a_bc |-> mergeChain(a, merge(b, c)),
                    done |-> TRUE]
    /\ m_pc' = "done"
    /\ UNCHANGED m_ops
    /\ OnlyMerge

MergeNext == DoMerge

\* Two type nodes with the same name and the same values.
SameCore(x, y) == x.kind = "type" /\ y.kind = "type"
                  /\ x.name = y.name /\ x.values = y.values

\* C9: DBType.merge is commutative and associative on type nodes that share
\* name and values, and the result carries the union of the operands'
\* reference_columns with name and values unchanged.
C9_MergeCommAssoc ==
    (m_pc = "done" /\ SameCore(m_ops[1], m_ops[2]) /\ SameCore(m_ops[2], m_ops[3])) =>
        /\ m_out.ab = m_out.ba
        /\ m_out.ab_c = m_out.a_bc
        /\ m_out.ab.kind = "type"
        /\ m_out.ab.name = m_ops[1].name
        /\ m_out.ab.values = m_ops[1].values
        /\ m_out.ab.reference_columns =
              m_ops[1].reference_columns \cup m_ops[2].reference_columns
        /\ m_out.ab_c.reference_columns =
              m_ops[1].reference_columns \cup m_ops[2].reference_columns
                 \cup m_ops[3].reference_columns

C9_Witness ==
    /\ m_pc = "done"
    /\ SameCore(m_ops[1], m_ops[2]) /\ SameCore(m_ops[2], m_ops[3])
    /\ m_ops[1].reference_columns # m_ops[2].reference_columns
    /\ m_ops[1].reference_columns # {}
    /\ m_ops[2].reference_columns # {}
    /\ m_ops[3].reference_columns # m_ops[1].reference_columns

\* The operands differ in content that merge does not unite.
Disagree(x, y) ==
    IF x.kind = "type" /\ y.kind = "type"
    THEN x.name # y.name \/ x.values # y.values
    ELSE x # y

\* A merge of operands that disagree has raised, in either order.
C10_MergeConflictState ==
    m_pc = "done" =>
        /\ (Disagree(m_ops[1], m_ops[2]) =>
               m_out.ab = ValueError /\ m_out.ba = ValueError)
        /\ (~Disagree(m_ops[1], m_ops[2]) => m_out.ab.kind = m_ops[1].kind)

\* C10: merging two nodes that disagree in non-unionable content raises and
\* yields no node: DBType.merge when name or values differ, DBObject.merge
\* whenever the operands are not equal; the operands stay as they were.
C10_MergeConflict ==
    /\ []C10_MergeConflictState
    /\ [][m_ops' = m_ops]_mergeVars

C10_Witness ==
    /\ m_pc = "done"
    /\ m_ops[1].kind = "type"
    /\ m_ops[1].name = m_ops[2].name
    /\ m_ops[1].values # m_ops[2].values
    /\ m_out.ab = ValueError

(***************************************************************************)
(* The Action Recorder (DatabaseActions in dry-run mode): an append-only   *)
(* list of entries.  Every entry has the same fields; those a recorder     *)
(* method does not take hold "None" / {} / <<>>.                           *)
(***************************************************************************)
Entry(kind, fn) ==
    [kind |-> kind, fn |-> fn, table_name |-> "None", column_name |-> "None",
     explicit_data_type |-> "None", explicit_data_is_list |-> FALSE,
     custom_data_type |-> "None", type_name |-> "None", values |-> <<>>,
     target_columns |-> {}, constraint |-> "None", constraint_name |-> <<"None">>,
     columns |-> {}, constraint_args |-> "None", text |-> <<"None">>]

\* The text of a comment is a tuple of its parts.
\* What a node operation leaves in the recorder when it raises.
Raised(exc) == [Entry("raise", exc) EXCEPT !.text = <<exc>>]

HasRaised(rec) == \E i \in 1..Len(rec) : rec[i].kind = "raise"

record(rec, e) == Append(rec, e)

\* add_comment(text, previous_line): with previous_line the comment goes in
\* front of the entry recorded last.
add_comment(rec, text, previous_line) ==
    LET c == [Entry("comment", "add_comment") EXCEPT !.text = text]
    IN IF previous_line /\ Len(rec) > 0
       THEN SubSeq(rec, 1, Len(rec) - 1) \o <<c, rec[Len(rec)]>>
       ELSE Append(rec, c)

add_table(rec, t) == record(rec, [Entry("action", "add_table") EXCEPT !.table_name = t])
drop_table(rec, t) == record(rec, [Entry("action", "drop_table") EXCEPT !.table_name = t])

add_column(rec, t, c, explicit, is_list, custom) ==
    record(rec, [Entry("action", "add_column") EXCEPT
                    !.table_name = t, !.column_name = c,
                    !.explicit_data_type = explicit,
                    !.explicit_data_is_list = is_list,
                    !.custom_data_type = custom])

modify_column_type(rec, t, c, explicit, is_list, custom) ==
    record(rec, [Entry("action", "modify_column_type") EXCEPT
                    !.table_name = t, !.column_name = c,
                    !.explicit_data_type = explicit,
                    !.explicit_data_is_list = is_list,
                    !.custom_data_type = custom])

drop_column(rec, t, c) ==
    record(rec, [Entry("action", "drop_column") EXCEPT
                    !.table_name = t, !.column_name = c])

add_not_null(rec, t, c) ==
    record(rec, [Entry("action", "add_not_null") EXCEPT
                    !.table_name = t, !.column_name = c])

drop_not_null(rec, t, c) ==
    record(rec, [Entry("action", "drop_not_null") EXCEPT
                    !.table_name = t, !.column_name = c])

add_type(rec, name, values) ==
    record(rec, [Entry("action", "add_type") EXCEPT
                    !.type_name = name, !.values = values])

add_type_values(rec, name, values) ==
    record(rec, [Entry("action", "add_type_values") EXCEPT
                    !.type_name = name, !.values = values])

drop_type_values(rec, name, values, target_columns) ==
    record(rec, [Entry("action", "drop_type_values") EXCEPT
                    !.type_name = name, !.values = values,
                    !.target_columns = target_columns])

drop_type(rec, name) ==
    record(rec, [Entry("action", "drop_type") EXCEPT !.type_name = name])

add_constraint(rec, t, constraint, name, args, columns) ==
    record(rec, [Entry("action", "add_constraint") EXCEPT
                    !.table_name = t, !.constraint = constraint,
                    !.constraint_name = name, !.constraint_args = args,
                    !.columns = columns])

drop_constraint(rec, t, name) ==
    record(rec, [Entry("action", "drop_constraint") EXCEPT
                    !.table_name = t, !.constraint_name = name])

add_index(rec, t, columns, name) ==
    record(rec, [Entry("action", "add_index") EXCEPT
                    !.table_name = t, !.columns = columns, !.constraint_name = name])

drop_index(rec, t, name) ==
    record(rec, [Entry("action", "drop_index") EXCEPT
                    !.table_name = t, !.constraint_name = name])

(***************************************************************************)
(* create / migrate / destroy of the nodes: db_stubs.py.                   *)
(***************************************************************************)
NewTableComment(t) == <<"NEW TABLE", t>>

DBTable_create_comment_last(self, rec) ==
    add_comment(add_table(rec, self.table_name),
                NewTableComment(self.table_name), FALSE)

DBTable_create(self, rec) ==
    add_table(add_comment(rec, NewTableComment(self.table_name), FALSE),
              self.table_name)

DBTable_migrate(self, previous, rec) == record(rec, Raised("NotImplementedError"))

DBTable_destroy(self, rec) == drop_table(rec, self.table_name)

\* A create that takes SERIAL for every autoincrement column.
DBColumn_create_serial_for_any_type(self, rec) ==
    LET explicit_data_type ==
            IF ~self.column_type.ptr
            THEN IF self.autoincrement THEN "SERIAL" ELSE self.column_type.name
            ELSE "None"
        added == add_column(rec, self.table_name, self.column_name,
                            explicit_data_type, self.column_is_list,
                            IF self.column_type.ptr THEN self.column_type.name
                                                    ELSE "None")
    IN IF ~self.nullable
       THEN add_not_null(added, self.table_name, self.column_name)
       ELSE added

DBColumn_create(self, rec) ==
    LET explicit_data_type ==
            IF ~self.column_type.ptr
            THEN IF self.column_type.name = "INTEGER" /\ self.autoincrement
                 THEN "SERIAL"
                 ELSE self.column_type.name
            ELSE "None"
        added == add_column(rec, self.table_name, self.column_name,
                            explicit_data_type, self.column_is_list,
                            IF self.column_type.ptr THEN self.column_type.name
                                                    ELSE "None")
    IN IF ~self.nullable
       THEN add_not_null(added, self.table_name, self.column_name)
       ELSE added

DBColumn_destroy(self, rec) == drop_column(rec, self.table_name, self.column_name)

\* A migrate that restates NOT NULL whenever the column is not nullable.
DBColumn_migrate_restates_not_null(self, previous, rec) ==
    LET r1 == IF self.column_type # previous.column_type
                 \/ self.column_is_list # previous.column_is_list
              THEN add_comment(
                      modify_column_type(
                          rec, self.table_name, self.column_name,
                          IF ~self.column_type.ptr THEN self.column_type.name
                                                   ELSE "None",
                          self.column_is_list,
                          IF self.column_type.ptr THEN self.column_type.name
                                                  ELSE "None"),
                      <<"TODO: Perform a migration of values across types">>, TRUE)
              ELSE rec
        r2 == IF ~self.nullable
              THEN add_not_null(r1, self.table_name, self.column_name)
              ELSE r1
    IN IF self.nullable /\ ~previous.nullable
       THEN drop_not_null(r2, self.table_name, self.column_name)
       ELSE r2

DBColumn_migrate(self, previous, rec) ==
    LET r1 == IF self.column_type # previous.column_type
                 \/ self.column_is_list # previous.column_is_list
              THEN add_comment(
                      modify_column_type(
                          rec, self.table_name, self.column_name,
                          IF ~self.column_type.ptr THEN self.column_type.name
                                                   ELSE "None",
                          self.column_is_list,
                          IF self.column_type.ptr THEN self.column_type.name
                                                  ELSE "None"),
                      <<"TODO: Perform a migration of values across types">>, TRUE)
              ELSE rec
        r2 == IF ~self.nullable /\ previous.nullable
              THEN add_not_null(r1, self.table_name, self.column_name)
              ELSE r1
    IN IF self.nullable /\ ~previous.nullable
       THEN drop_not_null(r2, self.table_name, self.column_name)
       ELSE r2

DBConstraint_create(self, rec) ==
    CASE self.constraint_type = "FOREIGN_KEY" ->
            add_constraint(rec, self.table_name, self.constraint_type,
                           self.constraint_name, self.foreign_key_constraint,
                           self.columns)
      [] self.constraint_type = "CHECK" ->
            add_constraint(rec, self.table_name, self.constraint_type,
                           self.constraint_name, self.check_constraint,
                           self.columns)
      [] self.constraint_type = "INDEX" ->
            add_index(rec, self.table_name, self.columns, self.constraint_name)
      [] OTHER ->
            add_constraint(rec, self.table_name, self.constraint_type,
                           self.constraint_name, "None", self.columns)

DBConstraint_destroy(self, rec) ==
    IF self.constraint_type = "INDEX"
    THEN drop_index(rec, self.table_name, self.constraint_name)
    ELSE drop_constraint(rec, self.table_name, self.constraint_name)

\* A dump that keeps the constraint name.
DBConstraint_model_dump_with_name(self) ==
    [table_name |-> self.table_name, columns |-> self.columns,
     constraint_name |-> self.constraint_name,
     constraint_type |-> self.constraint_type,
     foreign_key_constraint |-> self.foreign_key_constraint,
     check_constraint |-> self.check_constraint]

\* model_dump(): every field but constraint_name (Field(exclude=True)).
DBConstraint_model_dump(self) ==
    [table_name |-> self.table_name, columns |-> self.columns,
     constraint_type |-> self.constraint_type,
     foreign_key_constraint |-> self.foreign_key_constraint,
     check_constraint |-> self.check_constraint]

DBConstraint_migrate(self, previous, rec) ==
    IF self.constraint_type # previous.constraint_type
    THEN record(rec, Raised("NotImplementedError"))
    ELSE IF DBConstraint_model_dump(self) # DBConstraint_model_dump(previous)
         THEN DBConstraint_create(self, DBConstraint_destroy(self, rec))
         ELSE rec

DBType_create(self, rec) == add_type(rec, self.name, sorted(self.values))

\* A destroy that leaves a type alone while columns reference it.
DBType_destroy_unless_referenced(self, rec) ==
    IF self.reference_columns # {} THEN rec ELSE drop_type(rec, self.name)

DBType_destroy(self, rec) == drop_type(rec, self.name)

\* A migrate that records the removals before the additions.
DBType_migrate_removals_first(self, previous, rec) ==
    LET new_values == self.values \ previous.values
        deleted_values == previous.values \ self.values
        r1 == IF deleted_values # {}
              THEN drop_type_values(rec, self.name, sorted(deleted_values),
                                    self.reference_columns)
              ELSE rec
    IN IF new_values # {}
       THEN add_type_values(r1, self.name, sorted(new_values))
       ELSE r1

DBType_migrate(self, previous, rec) ==
    LET new_values == self.values \ previous.values
        deleted_values == previous.values \ self.values
        r1 == IF new_values # {}
              THEN add_type_values(rec, self.name, sorted(new_values))
              ELSE rec
    IN IF deleted_values # {}
       THEN drop_type_values(r1, self.name, sorted(deleted_values),
                             self.reference_columns)
       ELSE r1

\* Method dispatch.
create(n, rec) ==
    CASE n.kind = "table" -> DBTable_create(n, rec)
      [] n.kind = "column" -> DBColumn_create(n, rec)
      [] n.kind = "type" -> DBType_create(n, rec)
      [] n.kind = "constraint" -> DBConstraint_create(n, rec)

destroy(n, rec) ==
    CASE n.kind = "table" -> DBTable_destroy(n, rec)
      [] n.kind = "column" -> DBColumn_destroy(n, rec)
      [] n.kind = "type" -> DBType_destroy(n, rec)
      [] n.kind = "constraint" -> DBConstraint_destroy(n, rec)

migrate(n, previous, rec) ==
    CASE n.kind = "table" -> DBTable_migrate(n, previous, rec)
      [] n.kind = "column" -> DBColumn_migrate(n, previous, rec)
      [] n.kind = "type" -> DBType_migrate(n, previous, rec)
      [] n.kind = "constraint" -> DBConstraint_migrate(n, previous, rec)

(***************************************************************************)
(* One node operation on drawn operands: create, migrate or destroy of a   *)
(* column, an enum type, a constraint or a table, on a recorder that is    *)
(* empty or holds an earlier entry.  Each behaviour makes one call.        *)
(***************************************************************************)
NodeColumnInputs ==
    {DBColumn("modela", "animal", column_type, column_is_list, nullable, autoincrement) :
        column_type \in {ColumnType("INTEGER"), ColumnType("VARCHAR"),
                         DBTypePointer("oldvalues"), DBTypePointer("newvalues")},
        column_is_list \in BOOLEAN, nullable \in BOOLEAN, autoincrement \in BOOLEAN}

NodeTypeInputs ==
    {DBType("oldvalues", values, reference_columns) :
        values \in SUBSET {"A", "B", "C"},
        reference_columns \in SUBSET {<<"modela", "animal">>, <<"modelb", "kind">>}}

\* validate_constraint_type: a foreign key has its ForeignKeyConstraint and
\* no other constraint has one; a CHECK constraint has its CheckConstraint
\* (the assertion of create).
NodeConstraintInputs ==
    {c \in {DBConstraint(table_name, constraint_name, columns, constraint_type, fk, check) :
                table_name \in {"modela", "modelb"},
                constraint_name \in {<<"modela", "key">>, <<"modela", "other">>},
                columns \in {{"id"}, {"id", "name"}},
                constraint_type \in {"PRIMARY_KEY", "FOREIGN_KEY", "UNIQUE", "INDEX",
                                     "CHECK"},
                fk \in {"None", "modelb.id", "modelb.name"},
                check \in {"None", "value_a > 0"}} :
        /\ (c.constraint_type = "FOREIGN_KEY") <=> (c.foreign_key_constraint # "None")
        /\ (c.constraint_type = "CHECK") => (c.check_constraint # "None")}

NodeTableInputs == {DBTable("modela")}

NodeInputs ==
    NodeColumnInputs \cup NodeTypeInputs \cup NodeConstraintInputs \cup NodeTableInputs

RecorderInputs == {<<>>, add_table(<<>>, "modela")}

NodeInit ==
    node_call = [op |-> "None", self |-> DBTable("None"), previous |-> DBTable("None"),
                 before |-> <<>>, after |-> <<>>]

\* await node.create(actor)
NodeCreate ==
    /\ node_call.op = "None"
    /\ \E self \in NodeInputs, rec \in RecorderInputs :
          node_call' = [op |-> "create", self |-> self, previous |-> self,
                        before |-> rec, after |-> create(self, rec)]
    /\ OnlyNode

\* await node.migrate(previous, actor), previous a node of the same class
NodeMigrate ==
    /\ node_call.op = "None"
    /\ \E self \in NodeInputs, previous \in NodeInputs, rec \in RecorderInputs :
          /\ self.kind = previous.kind
          /\ node_call' = [op |-> "migrate", self |-> self, previous |-> previous,
                           before |-> rec, after |-> migrate(self, previous, rec)]
    /\ OnlyNode

\* await node.destroy(actor)
NodeDestroy ==
    /\ node_call.op = "None"
    /\ \E self \in NodeInputs, rec \in RecorderInputs :
          node_call' = [op |-> "destroy", self |-> self, previous |-> self,
                        before |-> rec, after |-> destroy(self, rec)]
    /\ OnlyNode

NodeNext == NodeCreate \/ NodeMigrate \/ NodeDestroy

\* The call op was made on a node of the kind.
NodeCalled(op, kind) == node_call.op = op /\ node_call.self.kind = kind

\* What the call has recorded: the entries after those that were there, which
\* it has left as they were.
Recorded ==
    SubSeq(node_call.after, Len(node_call.before) + 1, Len(node_call.after))
KeepsEarlier ==
    /\ Len(node_call.after) >= Len(node_call.before)
    /\ SubSeq(node_call.after, 1, Len(node_call.before)) = node_call.before

RecordedOf(fn) == {i \in DOMAIN Recorded : Recorded[i].fn = fn}

\* Every drop_type_values recorded carries the type's referencing columns.
DropValuesCarryColumns ==
    NodeCalled("migrate", "type") =>
        /\ RecordedOf("drop_type") = {}
        /\ \A i \in RecordedOf("drop_type_values") :
               Recorded[i].target_columns = node_call.self.reference_columns

\* C21: destroying an enum type records one drop_type of that type, whether
\* columns reference it or not; a migration of the type records no
\* drop_type, and its drop_type_values carries the referencing columns.
C21_DropType ==
    /\ NodeCalled("destroy", "type") =>
           /\ KeepsEarlier
           /\ Len(Recorded) = 1
           /\ Recorded[1].fn = "drop_type"
           /\ Recorded[1].type_name = node_call.self.name
    /\ DropValuesCarryColumns

\* C21 as stated: a type that columns reference is not dropped.
C21_ReferencedTypeKept ==
    /\ (NodeCalled("destroy", "type") /\ node_call.self.reference_columns # {}) =>
           RecordedOf("drop_type") = {}
    /\ DropValuesCarryColumns

C21_Witness ==
    /\ NodeCalled("destroy", "type")
    /\ node_call.self.reference_columns # {}
    /\ node_call.before # <<>>
    /\ RecordedOf("drop_type") # {}

Count(fn) == Cardinality(RecordedOf(fn))
Bit(b) == IF b THEN 1 ELSE 0

\* The column type or the is-list flag of the migrated column differs.
TypeDiffers ==
    \/ node_call.self.column_type # node_call.previous.column_type
    \/ node_call.self.column_is_list # node_call.previous.column_is_list

TodoComments ==
    {i \in RecordedOf("add_comment") :
        Recorded[i].text = <<"TODO: Perform a migration of values across types">>}

\* C22: DBColumn.migrate(previous) records the minimum delta and nothing
\* else: one modify_column_type with one TODO comment iff the column type or
\* the is-list flag differs, one add_not_null iff the column went from
\* nullable to not nullable, one drop_not_null iff it went from not nullable
\* to nullable; so never both add_not_null and drop_not_null.
C22_MinimumDelta ==
    NodeCalled("migrate", "column") =>
        /\ KeepsEarlier
        /\ Count("modify_column_type") = Bit(TypeDiffers)
        /\ Cardinality(TodoComments) = Bit(TypeDiffers)
        /\ Count("add_not_null") =
               Bit(node_call.previous.nullable /\ ~node_call.self.nullable)
        /\ Count("drop_not_null") =
               Bit(~node_call.previous.nullable /\ node_call.self.nullable)
        /\ Len(Recorded) = Count("modify_column_type") + Cardinality(TodoComments)
                             + Count("add_not_null") + Count("drop_not_null")
        /\ Count("add_not_null") + Count("drop_not_null") <= 1

C22_Witness ==
    /\ NodeCalled("migrate", "column")
    /\ node_call.before # <<>>
    /\ TypeDiffers
    /\ ~node_call.previous.nullable /\ node_call.self.nullable
    /\ Len(Recorded) = 3
    /\ Recorded[3].fn = "drop_not_null"

\* Some field of the constraint other than its name differs.
ContentFields ==
    {"table_name", "columns", "constraint_type", "foreign_key_constraint",
     "check_constraint"}
ContentDiffers ==
    \E f \in ContentFields : node_call.self[f] # node_call.previous[f]

DropsConstraint(e, c) ==
    /\ e.kind = "action"
    /\ e.fn = IF c.constraint_type = "INDEX" THEN "drop_index" ELSE "drop_constraint"
    /\ e.table_name = c.table_name
    /\ e.constraint_name = c.constraint_name

AddsConstraint(e, c) ==
    /\ e.kind = "action"
    /\ e.fn = IF c.constraint_type = "INDEX" THEN "add_index" ELSE "add_constraint"
    /\ e.table_name = c.table_name
    /\ e.constraint_name = c.constraint_name
    /\ e.columns = c.columns

NothingRecorded == \A i \in DOMAIN Recorded : Recorded[i].kind = "raise"

\* C23: DBConstraint.migrate(previous) records the drop of the constraint and
\* then its creation iff a field other than the constraint name differs;
\* with equal content it records nothing; with different constraint types
\* it fails and records nothing.
C23_DropAndRecreate ==
    NodeCalled("migrate", "constraint") =>
        /\ KeepsEarlier
        /\ IF node_call.self.constraint_type # node_call.previous.constraint_type
           THEN HasRaised(Recorded) /\ NothingRecorded
           ELSE IF ContentDiffers
           THEN /\ Len(Recorded) = 2
                /\ DropsConstraint(Recorded[1], node_call.self)
                /\ AddsConstraint(Recorded[2], node_call.self)
           ELSE Recorded = <<>>

C23_Witness ==
    /\ NodeCalled("migrate", "constraint")
    /\ node_call.before # <<>>
    /\ node_call.self.constraint_name # node_call.previous.constraint_name
    /\ node_call.self.constraint_type = "INDEX"
    /\ node_call.self.columns # node_call.previous.columns
    /\ Len(Recorded) = 2
    /\ Recorded[1].fn = "drop_index"
    /\ Recorded[2].fn = "add_index"

\* The values of an entry are the set S in ascending order, each once.
NameBefore(a, b) ==
    \E i, j \in DOMAIN NameOrder : i < j /\ NameOrder[i] = a /\ NameOrder[j] = b
SortedValuesOf(e, S) ==
    /\ Range(e.values) = S
    /\ Len(e.values) = Cardinality(S)
    /\ \A i, j \in DOMAIN e.values : i < j => NameBefore(e.values[i], e.values[j])

NewValues == node_call.self.values \ node_call.previous.values
DeletedValues == node_call.previous.values \ node_call.self.values

\* C24: DBType.migrate(previous) records add_type_values with the sorted
\* values only the new type has iff there is one, and drop_type_values with
\* the sorted values only the previous type has and the referencing columns
\* iff there is one; additions come before removals and equal value sets
\* record nothing.
C24_ValueDelta ==
    NodeCalled("migrate", "type") =>
        /\ KeepsEarlier
        /\ Count("add_type_values") = Bit(NewValues # {})
        /\ Count("drop_type_values") = Bit(DeletedValues # {})
        /\ Len(Recorded) = Count("add_type_values") + Count("drop_type_values")
        /\ \A i \in RecordedOf("add_type_values") :
               /\ Recorded[i].type_name = node_call.self.name
               /\ SortedValuesOf(Recorded[i], NewValues)
               /\ \A j \in RecordedOf("drop_type_values") : i < j
        /\ \A j \in RecordedOf("drop_type_values") :
               /\ Recorded[j].type_name = node_call.self.name
               /\ SortedValuesOf(Recorded[j], DeletedValues)
               /\ Recorded[j].target_columns = node_call.self.reference_columns
        /\ (node_call.self.values = node_call.previous.values) => Recorded = <<>>

C24_Witness ==
    /\ NodeCalled("migrate", "type")
    /\ node_call.before # <<>>
    /\ node_call.self.values = {"A", "C"}
    /\ node_call.previous.values = {"B"}
    /\ node_call.self.reference_columns # {}
    /\ Len(Recorded) = 2
    /\ Recorded[1].fn = "add_type_values" /\ Recorded[1].values = <<"A", "C">>
    /\ Recorded[2].fn = "drop_type_values" /\ Recorded[2].values = <<"B">>

\* C25: DBColumn.create records add_column first, its explicit type SERIAL
\* exactly when the column type is INTEGER with autoincrement set (else the
\* column type, or none for a type pointer) and its custom type name set
\* exactly when the column type is a type pointer; then add_not_null iff
\* the column is not nullable, and nothing more.
C25_ColumnCreate ==
    NodeCalled("create", "column") =>
        /\ KeepsEarlier
        /\ Len(Recorded) = 1 + Bit(~node_call.self.nullable)
        /\ Recorded[1].fn = "add_column"
        /\ Recorded[1].table_name = node_call.self.table_name
        /\ Recorded[1].column_name = node_call.self.column_name
        /\ Recorded[1].explicit_data_is_list = node_call.self.column_is_list
        /\ (Recorded[1].explicit_data_type = "SERIAL") <=>
               (node_call.self.column_type = ColumnType("INTEGER")
                    /\ node_call.self.autoincrement)
        /\ Recorded[1].explicit_data_type \in
               {"SERIAL", IF node_call.self.column_type.ptr
                          THEN "None" ELSE node_call.self.column_type.name}
        /\ (Recorded[1].custom_data_type # "None") <=> node_call.self.column_type.ptr
        /\ node_call.self.column_type.ptr =>
               Recorded[1].custom_data_type = node_call.self.column_type.name
        /\ ~node_call.self.nullable =>
               /\ Recorded[2].fn = "add_not_null"
               /\ Recorded[2].table_name = node_call.self.table_name
               /\ Recorded[2].column_name = node_call.self.column_name

C25_Witness ==
    /\ NodeCalled("create", "column")
    /\ node_call.before # <<>>
    /\ node_call.self.column_type = ColumnType("INTEGER")
    /\ node_call.self.autoincrement
    /\ ~node_call.self.nullable
    /\ Len(Recorded) = 2
    /\ Recorded[1].explicit_data_type = "SERIAL"
    /\ Recorded[2].fn = "add_not_null"

(***************************************************************************)
(* The Schema Source: abstract table descriptions.                         *)
(***************************************************************************)
NoEnum == [name |-> "None", values |-> {}]

Fld(name, base_type, enum, nullable, primary_key, autoincrement) ==
    [name |-> name, base_type |-> base_type, enum |-> enum,
     nullable |-> nullable, primary_key |-> primary_key,
     autoincrement |-> autoincrement]

F_id == Fld("id", "int", NoEnum, FALSE, TRUE, FALSE)
F_id_serial == Fld("id", "int", NoEnum, FALSE, TRUE, TRUE)
F_name == Fld("name", "str", NoEnum, FALSE, FALSE, FALSE)
F_was_nullable == Fld("was_nullable", "str", NoEnum, TRUE, FALSE, FALSE)
F_was_nullable_now_not == Fld("was_nullable", "str", NoEnum, FALSE, FALSE, FALSE)
F_animal_old ==
    Fld("animal", "enum", [name |-> "oldvalues", values |-> {"A"}], FALSE, FALSE, FALSE)
F_animal_new ==
    Fld("animal", "enum", [name |-> "newvalues", values |-> {"A", "B"}], FALSE, FALSE, FALSE)
F_animal_old_grown ==
    Fld("animal", "enum", [name |-> "oldvalues", values |-> {"A", "B"}], FALSE, FALSE, FALSE)
F_kind_old ==
    Fld("kind", "enum", [name |-> "oldvalues", values |-> {"A"}], TRUE, FALSE, FALSE)
F_value_a == Fld("value_a", "uuid", NoEnum, FALSE, TRUE, FALSE)
F_value_b == Fld("value_b", "uuid", NoEnum, FALSE, TRUE, FALSE)

\* The field lists a table description may carry.
FieldLists ==
    { <<F_id, F_animal_old, F_was_nullable>>,
      <<F_id, F_name, F_animal_new, F_was_nullable_now_not>>,
      <<F_id_serial, F_animal_old_grown>>,
      <<F_value_a, F_value_b, F_kind_old>> }

TableDescs == {[table_name |-> TableNames[i], fields |-> fl] :
                  i \in 1..Len(TableNames), fl \in FieldLists}

NameIndex(t) == CHOOSE i \in 1..Len(TableNames) : TableNames[i] = t

\* Lists of at most MaxTables table descriptions, of distinct tables.
Schemas ==
    UNION {{s \in [1..k -> TableDescs] :
               \A i, j \in 1..k :
                  i < j => NameIndex(s[i].table_name) < NameIndex(s[j].table_name)} :
           k \in 0..MaxTables}

(***************************************************************************)
(* Migration planner: delegate, order_db_objects, build_actions.           *)
(***************************************************************************)
PrimitiveColumnType(base_type) ==
    CASE base_type = "int" -> "INTEGER"
      [] base_type = "str" -> "VARCHAR"
      [] base_type = "uuid" -> "UUID"

FieldColumn(t, f) ==
    DBColumn(t, f.name,
             IF f.base_type = "enum" THEN DBTypePointer(f.enum.name)
                                     ELSE ColumnType(PrimitiveColumnType(f.base_type)),
             FALSE, f.nullable, f.autoincrement)

FieldType(t, f) == DBType(f.enum.name, f.enum.values, {<<t, f.name>>})

\* The <<node, dependencies>> pairs of one field: the enum type (depending
\* on the table) before the column that points to it.
DelegateField(t, f) ==
    IF f.base_type = "enum"
    THEN << <<FieldType(t, f), {DBTable(t)}>>,
            <<FieldColumn(t, f), {FieldType(t, f), DBTable(t)}>> >>
    ELSE << <<FieldColumn(t, f), {DBTable(t)}>> >>

RECURSIVE DelegateFields(_, _)
DelegateFields(t, fields) ==
    IF fields = <<>> THEN <<>>
    ELSE DelegateField(t, Head(fields)) \o DelegateFields(t, Tail(fields))

\* The primary-key constraint of a table, depending on the table and on
\* what its fields yielded.
DelegatePrimaryKey(td) ==
    LET t == td.table_name
        keys == {td.fields[i].name : i \in {j \in 1..Len(td.fields) :
                                              td.fields[j].primary_key}}
        yielded == DelegateFields(t, td.fields)
    IN IF keys = {} THEN <<>>
       ELSE << <<DBConstraint(t, <<t, "pkey">>, keys, "PRIMARY_KEY", "None", "None"),
                 {DBTable(t)} \cup {yielded[i][1] : i \in 1..Len(yielded)}>> >>

DelegateTable(td) ==
    << <<DBTable(td.table_name), {}>> >>
    \o DelegateFields(td.table_name, td.fields)
    \o DelegatePrimaryKey(td)

RECURSIVE delegate(_)
delegate(tables) ==
    IF tables = <<>> THEN <<>>
    ELSE DelegateTable(Head(tables)) \o delegate(Tail(tables))

\* Position of the entry of key k in a list of [node, deps] entries, 0 if none.
KeyPos(entries, k) ==
    IF \E i \in 1..Len(entries) : representation(entries[i].node) = k
    THEN CHOOSE i \in 1..Len(entries) : representation(entries[i].node) = k
    ELSE 0

\* Canonicalise: duplicates of one representation key are merged into the
\* first occurrence.  A merge that raises leaves its ValueError as the node.
RECURSIVE MergeDuplicates(_, _)
MergeDuplicates(db_objects, acc) ==
    IF db_objects = <<>> THEN acc
    ELSE LET node == Head(db_objects)[1]
             deps == {representation(d) : d \in Head(db_objects)[2]}
             at == KeyPos(acc, representation(node))
         IN IF at = 0
            THEN MergeDuplicates(Tail(db_objects),
                                 Append(acc, [node |-> node, deps |-> deps]))
            ELSE LET merged == merge(acc[at].node, node)
                 IN IF merged.kind = "ValueError"
                    THEN <<[node |-> ValueError, deps |-> {}]>>
                    ELSE MergeDuplicates(
                            Tail(db_objects),
                            [acc EXCEPT ![at] = [node |-> merged,
                                                 deps |-> acc[at].deps \cup deps]])

MergeFailed(entries) ==
    \E i \in 1..Len(entries) : entries[i].node.kind = "ValueError"

\* Topological order by generations: each round emits, in insertion order,
\* the entries whose dependencies have all been emitted.
RECURSIVE Generations(_, _)
Generations(remaining, done) ==
    IF remaining = <<>> THEN done
    ELSE LET emitted == {representation(done[i]) : i \in 1..Len(done)}
             IsReady(e) == e.deps \subseteq emitted
             ready == SelectSeq(remaining, IsReady)
             IsLater(e) == ~IsReady(e)
             later == SelectSeq(remaining, IsLater)
         IN IF ready = <<>> THEN done
            ELSE Generations(later,
                             done \o [i \in 1..Len(ready) |-> ready[i].node])

order_db_objects_insertion_order(db_objects) ==
    LET entries == MergeDuplicates(db_objects, <<>>)
    IN [i \in 1..Len(entries) |-> entries[i].node]

\* order_db_objects: the merged nodes, dependencies first.
order_db_objects(db_objects) ==
    Generations(MergeDuplicates(db_objects, <<>>), <<>>)

NodeOfKey(order, k) ==
    order[CHOOSE i \in 1..Len(order) : representation(order[i]) = k]

Keys(order) == {representation(order[i]) : i \in 1..Len(order)}

Reverse(s) == [i \in 1..Len(s) |-> s[Len(s) + 1 - i]]

NeedsMigrate_always(previous, next) == TRUE

\* A key of both snapshots is migrated only if its content objects differ.
NeedsMigrate(previous, next) == previous # next

\* One node of next_order: created if its key is new, migrated if its
\* content changed.
EmitNext(n, prev_order, rec) ==
    IF representation(n) \notin Keys(prev_order)
    THEN create(n, rec)
    ELSE IF NeedsMigrate(NodeOfKey(prev_order, representation(n)), n)
         THEN migrate(n, NodeOfKey(prev_order, representation(n)), rec)
         ELSE rec

RECURSIVE EmitAllNext(_, _, _)
EmitAllNext(order, prev_order, rec) ==
    IF order = <<>> \/ HasRaised(rec) THEN rec
    ELSE EmitAllNext(Tail(order), prev_order, EmitNext(Head(order), prev_order, rec))

RECURSIVE EmitDestroyed(_, _, _)
EmitDestroyed(order, next_order, rec) ==
    IF order = <<>> \/ HasRaised(rec) THEN rec
    ELSE EmitDestroyed(Tail(order), next_order,
                       IF representation(Head(order)) \notin Keys(next_order)
                       THEN destroy(Head(order), rec)
                       ELSE rec)

build_actions_destroys_first(prev_order, next_order) ==
    EmitAllNext(next_order, prev_order,
                EmitDestroyed(Reverse(prev_order), next_order, <<>>))

\* build_actions: creations and migrations along next_order, then
\* destructions along the reverse of prev_order.
build_actions(prev_order, next_order) ==
    EmitDestroyed(Reverse(prev_order), next_order,
                  EmitAllNext(next_order, prev_order, <<>>))

(***************************************************************************)
(* SpecPlanner: one planning pass over drawn schemas.                      *)
(***************************************************************************)
PlannerInit ==
    /\ prev_schema \in Schemas
    /\ next_schema \in Schemas
    /\ db_prev = <<>>
    /\ db_next = <<>>
    /\ ord_prev = <<>>
    /\ ord_next = <<>>
    /\ actions = <<>>
    /\ pl_pc = "start"

Delegate ==
    /\ pl_pc = "start"
    /\ db_prev' = delegate(prev_schema)
    /\ db_next' = delegate(next_schema)
    /\ pl_pc' = "delegated"
    /\ UNCHANGED <<prev_schema, next_schema, ord_prev, ord_next, actions>>
    /\ OnlyPlanner

Order ==
    /\ pl_pc = "delegated"
    /\ ~MergeFailed(MergeDuplicates(db_prev, <<>>))
    /\ ~MergeFailed(MergeDuplicates(db_next, <<>>))
    /\ ord_prev' = order_db_objects(db_prev)
    /\ ord_next' = order_db_objects(db_next)
    /\ pl_pc' = "ordered"
    /\ UNCHANGED <<prev_schema, next_schema, db_prev, db_next, actions>>
    /\ OnlyPlanner

\* A merge conflict aborts the pass: nothing is ordered, nothing recorded.
OrderFails ==
    /\ pl_pc = "delegated"
    /\ \/ MergeFailed(MergeDuplicates(db_prev, <<>>))
       \/ MergeFailed(MergeDuplicates(db_next, <<>>))
    /\ pl_pc' = "error"
    /\ UNCHANGED <<prev_schema, next_schema, db_prev, db_next, ord_prev,
                   ord_next, actions>>
    /\ OnlyPlanner

BuildActions ==
    /\ pl_pc = "ordered"
    /\ actions' = build_actions(ord_prev, ord_next)
    /\ pl_pc' = IF HasRaised(build_actions(ord_prev, ord_next)) THEN "error" ELSE "done"
    /\ UNCHANGED <<prev_schema, next_schema, db_prev, db_next, ord_prev, ord_next>>
    /\ OnlyPlanner

PlannerNext == Delegate \/ Order \/ OrderFails \/ BuildActions

(***************************************************************************)
(* Properties of the recorded action sequence.                             *)
(***************************************************************************)
FromScratch == pl_pc = "done" /\ prev_schema = <<>>

IsNewTableComment(e, t) ==
    e.kind = "comment" /\ e.text = NewTableComment(t)

\* C5: in the actions recorded for creating a schema from an empty previous
\* snapshot, add_table(T) precedes every add_column on T, add_type(E)
\* precedes every add_column whose custom type is E, every column of a
\* primary-key constraint is added before the constraint, and the NEW TABLE
\* comment of a table is the entry immediately before its add_table.
C5_CreationOrder ==
    FromScratch =>
        /\ \A i \in DOMAIN actions :
              actions[i].fn = "add_column" =>
                 /\ \E j \in 1..(i - 1) :
                       /\ actions[j].fn = "add_table"
                       /\ actions[j].table_name = actions[i].table_name
                 /\ actions[i].custom_data_type # "None" =>
                       \E j \in 1..(i - 1) :
                          /\ actions[j].fn = "add_type"
                          /\ actions[j].type_name = actions[i].custom_data_type
        /\ \A i \in DOMAIN actions :
              (actions[i].fn = "add_constraint"
                  /\ actions[i].constraint = "PRIMARY_KEY") =>
                 \A c \in actions[i].columns :
                    \E j \in 1..(i - 1) :
                       /\ actions[j].fn = "add_column"
                       /\ actions[j].table_name = actions[i].table_name
                       /\ actions[j].column_name = c
        /\ \A i \in DOMAIN actions :
              actions[i].fn = "add_table" =>
                 /\ i > 1
                 /\ IsNewTableComment(actions[i - 1], actions[i].table_name)
        /\ \A i \in DOMAIN actions :
              (actions[i].kind = "comment" /\ actions[i].text[1] = "NEW TABLE") =>
                 /\ i < Len(actions)
                 /\ actions[i + 1].fn = "add_table"
                 /\ actions[i + 1].table_name = actions[i].text[2]

C5_Witness ==
    /\ FromScratch
    /\ Len(next_schema) = 2
    /\ \E i \in DOMAIN actions :
          actions[i].fn = "add_column" /\ actions[i].custom_data_type # "None"
    /\ \E i \in DOMAIN actions :
          /\ actions[i].fn = "add_constraint"
          /\ Cardinality(actions[i].columns) = 2

RECURSIVE Flatten(_)
Flatten(seqs) == IF seqs = <<>> THEN <<>> ELSE Head(seqs) \o Flatten(Tail(seqs))

\* What one node of the next ordering records on its own.
EmissionOf(n) ==
    IF representation(n) \notin Keys(ord_prev) THEN create(n, <<>>)
    ELSE IF NodeOfKey(ord_prev, representation(n)) # n
         THEN migrate(n, NodeOfKey(ord_prev, representation(n)), <<>>)
         ELSE <<>>

IsDestroyed(n) == representation(n) \notin Keys(ord_next)

\* n depends on d: a column or constraint on its table, a type on the
\* tables of the columns that use it, a column on the type it points to.
DependsOn(n, d) ==
    \/ /\ d.kind = "table"
       /\ n.kind \in {"column", "constraint"}
       /\ n.table_name = d.table_name
    \/ /\ d.kind = "table"
       /\ n.kind = "type"
       /\ \E r \in n.reference_columns : r[1] = d.table_name
    \/ /\ d.kind = "type"
       /\ n.kind = "column"
       /\ n.column_type = DBTypePointer(d.name)

PositionOf(e) == CHOOSE i \in DOMAIN actions : actions[i] = e

\* C6: in the actions recorded for a diff, the creations and migrations come
\* first, node by node in the order of the next ordering, and the
\* destructions come after them, node by node in the reverse of the previous
\* ordering; so no object is dropped before an object that depended on it.
C6_DiffOrder ==
    pl_pc = "done" =>
        /\ actions =
              Flatten([i \in DOMAIN ord_next |-> EmissionOf(ord_next[i])])
              \o Flatten([i \in DOMAIN ord_prev |->
                            IF IsDestroyed(Reverse(ord_prev)[i])
                            THEN destroy(Reverse(ord_prev)[i], <<>>)
                            ELSE <<>>])
        /\ \A i, j \in DOMAIN ord_prev :
              (/\ IsDestroyed(ord_prev[i])
               /\ IsDestroyed(ord_prev[j])
               /\ DependsOn(ord_prev[j], ord_prev[i])) =>
                 /\ destroy(ord_prev[i], <<>>)[1] \in Range(actions)
                 /\ destroy(ord_prev[j], <<>>)[1] \in Range(actions)
                 /\ PositionOf(destroy(ord_prev[j], <<>>)[1])
                       < PositionOf(destroy(ord_prev[i], <<>>)[1])

C6_Witness ==
    /\ pl_pc = "done"
    /\ \E i, j \in DOMAIN actions :
          /\ i < j
          /\ actions[i].fn = "add_table"
          /\ actions[j].fn \in {"add_type_values", "modify_column_type", "add_not_null"}
    /\ \E i, j, k \in DOMAIN actions :
          /\ i < j /\ j < k
          /\ actions[i].fn \in {"add_table", "add_column"}
          /\ actions[j].fn \in {"drop_constraint", "drop_column"}
          /\ actions[k].fn = "drop_table"

\* The (table, column) pairs of the fields of a schema that use the enum E.
EnumUses(schema, E) ==
    UNION {{<<schema[i].table_name, schema[i].fields[k].name>> :
               k \in {m \in DOMAIN schema[i].fields :
                         schema[i].fields[m].enum.name = E}} :
           i \in DOMAIN schema}

EnumNames(schema) ==
    UNION {{schema[i].fields[k].enum.name : k \in DOMAIN schema[i].fields} :
           i \in DOMAIN schema} \ {"None"}

\* The enums that columns of two or more tables use.
SharedEnums(schema) ==
    {E \in EnumNames(schema) :
        Cardinality({u[1] : u \in EnumUses(schema, E)}) >= 2}

\* C7: when columns of two or more tables use one enum E, the creation
\* sequence holds exactly one add_type for E, every add_column that uses E
\* comes after it, and the one type node of E in the ordering has as its
\* reference_columns the union of the (table, column) pairs of all the tables.
C7_SharedEnum ==
    FromScratch =>
        \A E \in SharedEnums(next_schema) :
           /\ Cardinality({i \in DOMAIN actions :
                              /\ actions[i].fn = "add_type"
                              /\ actions[i].type_name = E}) = 1
           /\ \A i \in DOMAIN actions :
                 (actions[i].fn = "add_column" /\ actions[i].custom_data_type = E) =>
                    \E j \in 1..(i - 1) :
                       actions[j].fn = "add_type" /\ actions[j].type_name = E
           /\ Cardinality({i \in DOMAIN ord_next :
                              /\ ord_next[i].kind = "type"
                              /\ ord_next[i].name = E}) = 1
           /\ \A i \in DOMAIN ord_next :
                 (ord_next[i].kind = "type" /\ ord_next[i].name = E) =>
                    ord_next[i].reference_columns = EnumUses(next_schema, E)

C7_Witness ==
    /\ FromScratch
    /\ SharedEnums(next_schema) # {}
    /\ \E i, j \in DOMAIN actions :
          /\ i # j
          /\ actions[i].fn = "add_column"
          /\ actions[j].fn = "add_column"
          /\ actions[i].custom_data_type # "None"
          /\ actions[i].custom_data_type = actions[j].custom_data_type
          /\ actions[i].table_name # actions[j].table_name

\* The keys that both orderings hold with equal content.
SameContent ==
    {k \in Keys(ord_prev) \cap Keys(ord_next) :
        NodeOfKey(ord_prev, k) = NodeOfKey(ord_next, k)}

Without(order, keys) ==
    SelectSeq(order, LAMBDA n : representation(n) \notin keys)

\* C8: a diff of a schema against itself records no action and no comment;
\* in any diff, the keys that both snapshots hold with equal content
\* contribute nothing, whatever the kind of their node.
C8_SelfDiffEmpty ==
    pl_pc \in {"done", "error"} =>
        /\ prev_schema = next_schema => actions = <<>>
        /\ actions = build_actions(Without(ord_prev, SameContent),
                                   Without(ord_next, SameContent))

C8_Witness ==
    /\ pl_pc = "done"
    /\ prev_schema = next_schema
    /\ Len(next_schema) = 2
    /\ {ord_next[i].kind : i \in DOMAIN ord_next}
          = {"table", "column", "type", "constraint"}

(***************************************************************************)
(* The query builder: queries.py.                                          *)
(*                                                                         *)
(* SQL text is a sequence of tokens, so that the placeholders and the      *)
(* clause keywords of a rendered query can be read back from it.           *)
(***************************************************************************)
Kw(s) == [k |-> "kw", s |-> s, a |-> "", n |-> 0]
\* QueryIdentifier(s) renders as "s".
QueryIdentifier(s) == [k |-> "identifier", s |-> s, a |-> "", n |-> 0]
\* QueryLiteral(s) renders as s.
QueryLiteral(s) == [k |-> "literal", s |-> s, a |-> "", n |-> 0]
\* "table"."column"
ColumnLiteral(m, c) == [k |-> "column", s |-> m, a |-> c, n |-> 0]
\* "table".*
TableStar(m) == [k |-> "star", s |-> m, a |-> "", n |-> 0]
\* $i
Placeholder(i) == [k |-> "$", s |-> "", a |-> "", n |-> i]
\* a number written into the text (LIMIT 10)
IntLiteral(i) == [k |-> "int", s |-> "", a |-> "", n |-> i]
\* aggregate_i
AggregateName(i) == [k |-> "aggregate", s |-> "", a |-> "", n |-> i]

\* The Python values a caller passes to the builder.
Column(m, c) == [t |-> "column", m |-> m, c |-> c]
Table(m) == [t |-> "table", m |-> m, c |-> ""]
Function(f) == [t |-> "function", m |-> "", c |-> f]
Value(v) == [t |-> "value", m |-> "", c |-> v]
FieldComparison(left, comparison, right) ==
    [t |-> "comparison", left |-> left, comparison |-> comparison, right |-> right]
FieldComparisonGroup(type, elements) ==
    [t |-> "group", type |-> type, elements |-> elements]

is_base_table(obj) == obj.t = "table"
is_column(obj) == obj.t = "column"
is_comparison(obj) == obj.t = "comparison"
is_comparison_group(obj) == obj.t = "group"
is_function_metadata(obj) == obj.t = "function"

and_(conditions) == FieldComparisonGroup("AND", conditions)
or_(conditions) == FieldComparisonGroup("OR", conditions)

\* The FunctionMetadata objects the caller has made with func.count(...).
\* literal and original_field are fixed at construction; local_name is the
\* mutable attribute, kept in the variable local_name.
FunctionObjects ==
    [count_id |->
        [literal |-> <<QueryLiteral("count("), ColumnLiteral("userdemo", "id"),
                       QueryLiteral(")")>>,
         original_field |-> Column("userdemo", "id")]]

FunctionNames == DOMAIN FunctionObjects

\* to_query() of a column and of a function: the literal, no variables.
Column_to_query(field) == <<ColumnLiteral(field.m, field.c)>>
FunctionMetadata_to_query(f) == FunctionObjects[f.c].literal

Operand_to_query(x) ==
    IF is_function_metadata(x) THEN FunctionMetadata_to_query(x)
    ELSE Column_to_query(x)

\* FieldComparison.to_query(start): a column on the right is rendered in
\* place, anything else becomes the placeholder $start and one variable.
FieldComparison_to_query(c, start) ==
    IF is_column(c.right)
    THEN [sql |-> Operand_to_query(c.left) \o <<Kw(c.comparison)>>
                    \o Column_to_query(c.right),
          vars |-> <<>>]
    ELSE [sql |-> Operand_to_query(c.left)
                    \o <<Kw(c.comparison), Placeholder(start)>>,
          vars |-> <<c.right.c>>]

RECURSIVE to_query(_, _)
RECURSIVE JoinElements(_, _, _)
\* FieldComparisonGroup.to_query(start): the elements joined by the group's
\* type, each nested group in parentheses, the numbering threaded through.
JoinElements(elements, type, start) ==
    IF elements = <<>> THEN [sql |-> <<>>, vars |-> <<>>]
    ELSE LET e == Head(elements)
             first == to_query(e, start)
             wrapped == IF is_comparison_group(e)
                        THEN <<Kw("(")>> \o first.sql \o <<Kw(")")>>
                        ELSE first.sql
             rest == JoinElements(Tail(elements), type, start + Len(first.vars))
         IN  [sql |-> IF Tail(elements) = <<>> THEN wrapped
                      ELSE wrapped \o <<Kw(type)>> \o rest.sql,
              vars |-> first.vars \o rest.vars]

to_query(x, start) ==
    IF is_comparison_group(x) THEN JoinElements(x.elements, x.type, start)
    ELSE FieldComparison_to_query(x, start)

\* ", ".join(parts) and " ".join(parts), each part a token sequence.
RECURSIVE CommaJoin(_)
CommaJoin(parts) ==
    IF parts = <<>> THEN <<>>
    ELSE IF Tail(parts) = <<>> THEN Head(parts)
    ELSE Head(parts) \o <<Kw(",")>> \o CommaJoin(Tail(parts))

RECURSIVE SpaceJoin(_)
SpaceJoin(parts) ==
    IF parts = <<>> THEN <<>> ELSE Head(parts) \o SpaceJoin(Tail(parts))

\* QueryBuilder.__init__: every list attribute that a method changes in
\* place is a new, empty list object.
QueryBuilder_init(h) ==
    [heap |-> h \o << <<>>, <<>>, <<>>, <<>>, <<>>, <<>>, <<>> >>,
     self |-> [query_type |-> "None",
               main_model |-> "None",
               where_conditions |-> Len(h) + 1,
               order_by_clauses |-> Len(h) + 2,
               join_clauses |-> Len(h) + 3,
               limit_value |-> <<>>,
               offset_value |-> <<>>,
               group_by_fields |-> <<>>,
               having_conditions |-> Len(h) + 4,
               distinct_on_fields |-> <<>>,
               update_values |-> Len(h) + 5,
               select_fields |-> Len(h) + 6,
               select_raw |-> Len(h) + 7,
               select_aggregate_count |-> 0,
               text_query |-> <<>>,
               text_variables |-> <<>>]]

\* copy(self): a new object whose attributes are the same values and the
\* same list objects.
copy(self) == self

Returns(h, ln, self) ==
    [ok |-> TRUE, heap |-> h, local_name |-> ln, self |-> self, err |-> "None"]
Raises(h, ln, self, err) ==
    [ok |-> FALSE, heap |-> h, local_name |-> ln, self |-> self, err |-> err]

\* _select_inner: the loop over the fields.  st carries the list objects,
\* the function objects' local_name and the builder being changed.
RECURSIVE select_fields_loop(_, _)
select_fields_loop(fields, st) ==
    IF fields = <<>> THEN st
    ELSE LET field == Head(fields)
             self == st.self
             literal ==
                 IF is_column(field) THEN Column_to_query(field)
                 ELSE IF is_base_table(field) THEN <<TableStar(field.m)>>
                 ELSE FunctionObjects[field.c].literal
                        \o <<Kw("AS"), AggregateName(self.select_aggregate_count)>>
             h2 == [st.heap EXCEPT ![self.select_fields] = Append(@, literal),
                                   ![self.select_raw] = Append(@, field)]
         IN  select_fields_loop(Tail(fields),
                 [heap |-> h2,
                  local_name |->
                      IF is_function_metadata(field)
                      THEN [st.local_name EXCEPT
                               ![field.c] = <<self.select_aggregate_count>>]
                      ELSE st.local_name,
                  self |->
                      IF is_function_metadata(field)
                      THEN [self EXCEPT !.select_aggregate_count = @ + 1]
                      ELSE self])

representative_model(field) ==
    IF is_function_metadata(field) THEN FunctionObjects[field.c].original_field.m
    ELSE field.m

QueryBuilder_select_inner(h, ln, self, fields) ==
    IF fields = <<>> THEN Raises(h, ln, self, "ValueError")
    ELSE LET typed == [self EXCEPT !.query_type = "SELECT",
                                   !.main_model = representative_model(fields[1])]
             st == select_fields_loop(fields,
                       [heap |-> h, local_name |-> ln, self |-> typed])
         IN  Returns(st.heap, st.local_name, st.self)

QueryBuilder_select(h, ln, self, fields) ==
    IF \E i \in DOMAIN fields :
           /\ ~is_column(fields[i])
           /\ ~is_base_table(fields[i])
           /\ ~is_function_metadata(fields[i])
    THEN Raises(h, ln, self, "ValueError")
    ELSE QueryBuilder_select_inner(h, ln, copy(self), fields)

QueryBuilder_update(h, ln, self, model) ==
    Returns(h, ln, [copy(self) EXCEPT !.query_type = "UPDATE", !.main_model = model])

QueryBuilder_delete(h, ln, self, model) ==
    Returns(h, ln, [copy(self) EXCEPT !.query_type = "DELETE", !.main_model = model])

\* where() that extends the list as it validates, one condition at a time.
QueryBuilder_where_extends_as_it_validates(h, ln, self, conditions) ==
    LET bad == {i \in DOMAIN conditions :
                   ~is_comparison(conditions[i]) /\ ~is_comparison_group(conditions[i])}
        first == IF bad = {} THEN Len(conditions) + 1
                 ELSE CHOOSE i \in bad : \A j \in bad : i <= j
        h2 == [h EXCEPT ![copy(self).where_conditions] =
                  @ \o SubSeq(conditions, 1, first - 1)]
    IN  IF bad # {} THEN Raises(h2, ln, self, "ValueError")
        ELSE Returns(h2, ln, copy(self))

\* self.where_conditions += validated_comparisons: the list object that the
\* copy shares with the receiver is extended in place.
QueryBuilder_where(h, ln, self, conditions) ==
    IF \E i \in DOMAIN conditions :
           ~is_comparison(conditions[i]) /\ ~is_comparison_group(conditions[i])
    THEN Raises(h, ln, self, "ValueError")
    ELSE Returns([h EXCEPT ![copy(self).where_conditions] = @ \o conditions],
                 ln, copy(self))

QueryBuilder_order_by(h, ln, self, field, direction) ==
    IF ~is_column(field) THEN Raises(h, ln, self, "ValueError")
    ELSE Returns([h EXCEPT ![copy(self).order_by_clauses] =
                      Append(@, Column_to_query(field) \o <<Kw(direction)>>)],
                 ln, copy(self))

QueryBuilder_join(h, ln, self, table, on, join_type) ==
    IF ~is_comparison(on) THEN Raises(h, ln, self, "ValueError")
    ELSE Returns([h EXCEPT ![copy(self).join_clauses] =
                      Append(@, <<Kw(join_type), Kw("JOIN"), QueryLiteral(table),
                                  Kw("ON")>>
                                \o Operand_to_query(on.left)
                                \o <<Kw(on.comparison)>>
                                \o Operand_to_query(on.right))],
                 ln, copy(self))

QueryBuilder_set(h, ln, self, column, value) ==
    IF ~is_column(column) THEN Raises(h, ln, self, "ValueError")
    ELSE Returns([h EXCEPT ![copy(self).update_values] = Append(@, <<column, value>>)],
                 ln, copy(self))

QueryBuilder_limit(h, ln, self, value) ==
    Returns(h, ln, [copy(self) EXCEPT !.limit_value = <<value>>])

QueryBuilder_offset(h, ln, self, value) ==
    Returns(h, ln, [copy(self) EXCEPT !.offset_value = <<value>>])

\* self.group_by_fields = valid_fields: a new list, assigned to the copy.
QueryBuilder_group_by(h, ln, self, fields) ==
    IF \E i \in DOMAIN fields : ~is_column(fields[i])
    THEN Raises(h, ln, self, "ValueError")
    ELSE Returns(h, ln, [copy(self) EXCEPT !.group_by_fields = fields])

QueryBuilder_having(h, ln, self, conditions) ==
    IF \E i \in DOMAIN conditions : ~is_comparison(conditions[i])
    THEN Raises(h, ln, self, "ValueError")
    ELSE Returns([h EXCEPT ![copy(self).having_conditions] = @ \o conditions],
                 ln, copy(self))

QueryBuilder_distinct_on(h, ln, self, fields) ==
    IF \E i \in DOMAIN fields : ~is_column(fields[i])
    THEN Raises(h, ln, self, "ValueError")
    ELSE Returns(h, ln,
             [copy(self) EXCEPT !.distinct_on_fields =
                 [i \in DOMAIN fields |-> Column_to_query(fields[i])]])

QueryBuilder_text(h, ln, self, query, variables) ==
    Returns(h, ln, [copy(self) EXCEPT !.text_query = <<query>>,
                                      !.text_variables = variables])

\* build(): the SET components.  Each value is appended to variables and its
\* placeholder is the number of the next variable.
RECURSIVE set_components_zero_based(_, _)
set_components_zero_based(update_values, variables) ==
    IF update_values = <<>> THEN [parts |-> <<>>, vars |-> variables]
    ELSE LET column == Head(update_values)[1]
             value == Head(update_values)[2]
             rest == set_components_zero_based(Tail(update_values),
                                               Append(variables, value))
         IN  [parts |-> <<Column_to_query(column)
                           \o <<Kw("="), Placeholder(Len(variables))>>>>
                        \o rest.parts,
              vars |-> rest.vars]

RECURSIVE set_components(_, _)
set_components(update_values, variables) ==
    IF update_values = <<>> THEN [parts |-> <<>>, vars |-> variables]
    ELSE LET column == Head(update_values)[1]
             value == Head(update_values)[2]
             rest == set_components(Tail(update_values), Append(variables, value))
         IN  [parts |-> <<Column_to_query(column)
                           \o <<Kw("="), Placeholder(Len(variables) + 1)>>>>
                        \o rest.parts,
              vars |-> rest.vars]

\* build(): the HAVING conditions.  A function on the right is rendered in
\* place; any other right-hand side is appended to variables and rendered as
\* the placeholder of the number of variables so far.
RECURSIVE having_clause_restarts(_, _, _)
having_clause_restarts(having_conditions, i, variables) ==
    IF having_conditions = <<>> THEN [sql |-> <<>>, vars |-> variables]
    ELSE LET having_condition == Head(having_conditions)
             is_fn == is_function_metadata(having_condition.right)
             vars2 == IF is_fn THEN variables
                      ELSE Append(variables, having_condition.right.c)
             having_value == IF is_fn
                             THEN FunctionObjects[having_condition.right.c].literal
                             ELSE <<Placeholder(i + 1)>>
             rest == having_clause_restarts(Tail(having_conditions), i + 1, vars2)
         IN  [sql |-> (IF i > 0 THEN <<Kw("AND")>> ELSE <<>>)
                      \o FunctionObjects[having_condition.left.c].literal
                      \o <<Kw(having_condition.comparison)>>
                      \o having_value
                      \o rest.sql,
              vars |-> rest.vars]

RECURSIVE having_clause(_, _, _)
having_clause(having_conditions, i, variables) ==
    IF having_conditions = <<>> THEN [sql |-> <<>>, vars |-> variables]
    ELSE LET having_condition == Head(having_conditions)
             is_fn == is_function_metadata(having_condition.right)
             vars2 == IF is_fn THEN variables
                      ELSE Append(variables, having_condition.right.c)
             having_value == IF is_fn
                             THEN FunctionObjects[having_condition.right.c].literal
                             ELSE <<Placeholder(Len(vars2))>>
             rest == having_clause(Tail(having_conditions), i + 1, vars2)
         IN  [sql |-> (IF i > 0 THEN <<Kw("AND")>> ELSE <<>>)
                      \o FunctionObjects[having_condition.left.c].literal
                      \o <<Kw(having_condition.comparison)>>
                      \o having_value
                      \o rest.sql,
              vars |-> rest.vars]

\* if self.text_query: of a str | None, <<>> for None and <<q>> for the
\* string q.  None and the empty string are both false.
truthy(text_query) ==
    IF text_query = <<>> THEN FALSE ELSE text_query[1] # <<>>

Built(sql, params) == [ok |-> TRUE, sql |-> sql, params |-> params, err |-> "None"]
BuildRaises(err) == [ok |-> FALSE, sql |-> <<>>, params |-> <<>>, err |-> err]

\* build(): the statement head of the query type.
build_head(h, self) ==
    IF self.query_type = "SELECT"
    THEN [sql |-> <<Kw("SELECT")>>
                  \o (IF self.distinct_on_fields # <<>>
                      THEN <<Kw("DISTINCT ON"), Kw("(")>>
                           \o CommaJoin(self.distinct_on_fields) \o <<Kw(")")>>
                      ELSE <<>>)
                  \o CommaJoin(h[self.select_fields])
                  \o <<Kw("FROM"), QueryIdentifier(self.main_model)>>,
          vars |-> <<>>]
    ELSE IF self.query_type = "UPDATE"
    THEN LET set == set_components(h[self.update_values], <<>>)
         IN  [sql |-> <<Kw("UPDATE"), QueryIdentifier(self.main_model), Kw("SET")>>
                      \o CommaJoin(set.parts),
              vars |-> set.vars]
    ELSE IF self.query_type = "DELETE"
    THEN [sql |-> <<Kw("DELETE FROM"), QueryIdentifier(self.main_model)>>,
          vars |-> <<>>]
    ELSE [sql |-> <<>>, vars |-> <<>>]

\* build(): the query text grows by one clause after the other, in the
\* order of the statements of build().
clauses_order_by_early(head, joins, where, group, having, order, limit, offset) ==
    head \o joins \o order \o where \o group \o having \o limit \o offset

clauses(head, joins, where, group, having, order, limit, offset) ==
    head \o joins \o where \o group \o having \o order \o limit \o offset

\* build(): the text override is returned as it is; otherwise the head, then
\* JOIN, WHERE, GROUP BY, HAVING, ORDER BY, LIMIT and OFFSET for the state
\* that is not empty.
build(h, self) ==
    IF truthy(self.text_query) THEN Built(self.text_query[1], self.text_variables)
    ELSE IF self.query_type \in {"SELECT", "UPDATE", "DELETE"}
            /\ self.main_model = "None"
    THEN BuildRaises("ValueError")
    ELSE
      LET head == build_head(h, self)
          joins == IF h[self.join_clauses] # <<>>
                   THEN SpaceJoin(h[self.join_clauses]) ELSE <<>>
          where == IF h[self.where_conditions] # <<>>
                   THEN LET w == to_query(and_(h[self.where_conditions]),
                                          Len(head.vars) + 1)
                        IN  [sql |-> <<Kw("WHERE")>> \o w.sql,
                             vars |-> head.vars \o w.vars]
                   ELSE [sql |-> <<>>, vars |-> head.vars]
          group == IF self.group_by_fields # <<>>
                   THEN <<Kw("GROUP BY")>>
                        \o CommaJoin([i \in DOMAIN self.group_by_fields |->
                              <<ColumnLiteral(self.group_by_fields[i].m,
                                              self.group_by_fields[i].c)>>])
                   ELSE <<>>
          having == IF h[self.having_conditions] # <<>>
                    THEN LET hv == having_clause(h[self.having_conditions], 0,
                                                 where.vars)
                         IN  [sql |-> <<Kw("HAVING")>> \o hv.sql, vars |-> hv.vars]
                    ELSE [sql |-> <<>>, vars |-> where.vars]
          order == IF h[self.order_by_clauses] # <<>>
                   THEN <<Kw("ORDER BY")>> \o CommaJoin(h[self.order_by_clauses])
                   ELSE <<>>
          limit == IF self.limit_value # <<>>
                   THEN <<Kw("LIMIT"), IntLiteral(self.limit_value[1])>> ELSE <<>>
          offset == IF self.offset_value # <<>>
                    THEN <<Kw("OFFSET"), IntLiteral(self.offset_value[1])>> ELSE <<>>
      IN  Built(clauses(head.sql, joins, where.sql, group, having.sql, order,
                        limit, offset),
                having.vars)

(***************************************************************************)
(* The calls a program makes on its builders.                              *)
(***************************************************************************)
UserDemo == "userdemo"
ArtifactDemo == "artifactdemo"

\* The model classes given to update() and delete(); "None" is Python's None.
ModelInputs == {UserDemo, "None"}

SelectInputs ==
    { <<Column(UserDemo, "id")>>,
      <<Column(UserDemo, "name"), Function("count_id")>>,
      <<Table(UserDemo)>>,
      <<Value("invalid field")>> }

WhereInputs ==
    { <<FieldComparison(Column(UserDemo, "id"), ">", Value("v1"))>>,
      <<FieldComparison(Column(UserDemo, "name"), "=", Value("v2")),
        FieldComparison(Column(UserDemo, "name"), "=", Column(UserDemo, "email"))>>,
      <<or_(<<FieldComparison(Column(UserDemo, "id"), "=", Value("v1")),
              FieldComparison(Column(UserDemo, "id"), "=", Value("v2"))>>)>>,
      <<FieldComparison(Column(UserDemo, "id"), ">", Value("v1")),
        Value("invalid condition")>> }

OrderByInputs ==
    { <<Column(UserDemo, "id"), "DESC">>, <<Value("invalid field"), "ASC">> }

JoinInputs ==
    { <<ArtifactDemo,
        FieldComparison(Column(UserDemo, "id"), "=", Column(ArtifactDemo, "user_id")),
        "INNER">>,
      <<ArtifactDemo, Value("invalid condition"), "INNER">> }

SetInputs ==
    { <<Column(UserDemo, "name"), "v1">>,
      <<Column(UserDemo, "email"), "v2">>,
      <<Value("name"), "v1">> }

GroupByInputs ==
    { <<Column(UserDemo, "name")>>,
      <<Column(UserDemo, "id"), Value("invalid field")>> }

HavingInputs ==
    { <<FieldComparison(Function("count_id"), ">", Value("v1"))>>,
      <<FieldComparison(Function("count_id"), "=", Function("count_id"))>>,
      <<FieldComparison(Function("count_id"), ">", Value("v1")),
        Value("invalid condition")>> }

DistinctOnInputs ==
    { <<Column(UserDemo, "name")>>,
      <<Column(UserDemo, "id"), Value("invalid field")>> }

TextInputs ==
    { [query |-> <<QueryLiteral("SELECT * FROM users WHERE id ="), Placeholder(1)>>,
       variables |-> <<"v1">>],
      [query |-> <<QueryLiteral("SELECT * FROM users WHERE id ="), Placeholder(2)>>,
       variables |-> <<"v1">>],
      [query |-> <<>>, variables |-> <<"v1">>] }

LimitInputs == {10}
OffsetInputs == {5}

NoLocalNames == [f \in FunctionNames |-> <<>>]

\* A program that keeps every builder it is given ("branch"), or one that
\* keeps only the result of each call ("chain": q = q.where(...)).
BuilderInit(s) ==
    /\ style = s
    /\ heap = QueryBuilder_init(<<>>).heap
    /\ builders = <<QueryBuilder_init(<<>>).self>>
    /\ local_name = NoLocalNames
    /\ ncalls = 0
    /\ last = [op |-> "QueryBuilder", ok |-> TRUE]
    /\ born = <<build(QueryBuilder_init(<<>>).heap, QueryBuilder_init(<<>>).self)>>

CanCall(b) ==
    /\ b \in DOMAIN builders
    /\ style = "branch" => Len(builders) < MaxBuilders
    /\ style = "chain" => ncalls < MaxCalls

\* The caller receives r from the call op on builders[b].
Call(op, b, r) ==
    /\ CanCall(b)
    /\ heap' = r.heap
    /\ local_name' = r.local_name
    /\ ncalls' = IF style = "chain" THEN ncalls + 1 ELSE ncalls
    /\ last' = [op |-> op, ok |-> r.ok]
    /\ builders' = IF ~r.ok THEN builders
                   ELSE IF style = "chain" THEN [builders EXCEPT ![b] = r.self]
                   ELSE Append(builders, r.self)
    /\ born' = IF ~r.ok THEN born
               ELSE IF style = "chain"
               THEN [born EXCEPT ![b] = build(r.heap, r.self)]
               ELSE Append(born, build(r.heap, r.self))
    /\ UNCHANGED style

\* q = QueryBuilder()
NewBuilder ==
    /\ style = "branch" => Len(builders) < MaxBuilders
    /\ style = "chain" => ncalls < MaxCalls
    /\ LET made == QueryBuilder_init(IF style = "chain" THEN <<>> ELSE heap)
       IN  /\ heap' = made.heap
           /\ builders' = IF style = "chain" THEN <<made.self>>
                          ELSE Append(builders, made.self)
           /\ born' = IF style = "chain" THEN <<build(made.heap, made.self)>>
                      ELSE Append(born, build(made.heap, made.self))
    /\ ncalls' = IF style = "chain" THEN ncalls + 1 ELSE ncalls
    /\ last' = [op |-> "QueryBuilder", ok |-> TRUE]
    /\ UNCHANGED <<style, local_name>>
    /\ OnlyBuilder

Select ==
    \E b \in DOMAIN builders, fields \in SelectInputs :
        /\ Call("select", b, QueryBuilder_select(heap, local_name, builders[b], fields))
        /\ OnlyBuilder

Update ==
    \E b \in DOMAIN builders, model \in ModelInputs :
        /\ Call("update", b, QueryBuilder_update(heap, local_name, builders[b], model))
        /\ OnlyBuilder

Delete ==
    \E b \in DOMAIN builders, model \in ModelInputs :
        /\ Call("delete", b, QueryBuilder_delete(heap, local_name, builders[b], model))
        /\ OnlyBuilder

Where ==
    \E b \in DOMAIN builders, conditions \in WhereInputs :
        /\ Call("where", b, QueryBuilder_where(heap, local_name, builders[b], conditions))
        /\ OnlyBuilder

OrderBy ==
    \E b \in DOMAIN builders, x \in OrderByInputs :
        /\ Call("order_by", b,
                QueryBuilder_order_by(heap, local_name, builders[b], x[1], x[2]))
        /\ OnlyBuilder

Join ==
    \E b \in DOMAIN builders, x \in JoinInputs :
        /\ Call("join", b,
                QueryBuilder_join(heap, local_name, builders[b], x[1], x[2], x[3]))
        /\ OnlyBuilder

Set ==
    \E b \in DOMAIN builders, x \in SetInputs :
        /\ Call("set", b, QueryBuilder_set(heap, local_name, builders[b], x[1], x[2]))
        /\ OnlyBuilder

Limit ==
    \E b \in DOMAIN builders, value \in LimitInputs :
        /\ Call("limit", b, QueryBuilder_limit(heap, local_name, builders[b], value))
        /\ OnlyBuilder

Offset ==
    \E b \in DOMAIN builders, value \in OffsetInputs :
        /\ Call("offset", b, QueryBuilder_offset(heap, local_name, builders[b], value))
        /\ OnlyBuilder

GroupBy ==
    \E b \in DOMAIN builders, fields \in GroupByInputs :
        /\ Call("group_by", b,
                QueryBuilder_group_by(heap, local_name, builders[b], fields))
        /\ OnlyBuilder

Having ==
    \E b \in DOMAIN builders, conditions \in HavingInputs :
        /\ Call("having", b,
                QueryBuilder_having(heap, local_name, builders[b], conditions))
        /\ OnlyBuilder

DistinctOn ==
    \E b \in DOMAIN builders, fields \in DistinctOnInputs :
        /\ Call("distinct_on", b,
                QueryBuilder_distinct_on(heap, local_name, builders[b], fields))
        /\ OnlyBuilder

Text ==
    \E b \in DOMAIN builders, x \in TextInputs :
        /\ Call("text", b,
                QueryBuilder_text(heap, local_name, builders[b], x.query, x.variables))
        /\ OnlyBuilder

BuilderNext ==
    \/ NewBuilder \/ Select \/ Update \/ Delete \/ Where \/ OrderBy \/ Join
    \/ Set \/ Limit \/ Offset \/ GroupBy \/ Having \/ DistinctOn \/ Text

\* C1: deriving a refinement from a builder leaves the builder's own build()
\* as it was: every builder the program holds still builds what it built
\* when the program was given it, whatever was derived from it since.
C1_RefinementLeavesBase ==
    \A i \in DOMAIN builders : build(heap, builders[i]) = born[i]

\* The numbers of the placeholders of a rendered query, in text order.
PlaceholderNumbers(sql) ==
    LET ps == SelectSeq(sql, LAMBDA tok : tok.k = "$")
    IN  [i \in DOMAIN ps |-> ps[i].n]

\* The text before the first of the keywords kws (all of it when none is
\* there).
Before(sql, kws) ==
    LET at == {i \in DOMAIN sql : \E kw \in kws : sql[i] = Kw(kw)}
    IN  IF at = {} THEN sql
        ELSE SubSeq(sql, 1, (CHOOSE i \in at : \A j \in at : i <= j) - 1)

\* The values the caller supplied, clause by clause, in the order supplied.
SetValues(self) ==
    IF self.query_type = "UPDATE"
    THEN [i \in DOMAIN heap[self.update_values] |-> heap[self.update_values][i][2]]
    ELSE <<>>

RECURSIVE ConditionValues(_)
ConditionValues(conditions) ==
    IF conditions = <<>> THEN <<>>
    ELSE LET c == Head(conditions)
         IN  (IF is_comparison_group(c) THEN ConditionValues(c.elements)
              ELSE IF c.right.t = "value" THEN <<c.right.c>>
              ELSE <<>>)
             \o ConditionValues(Tail(conditions))

WhereValues(self) == ConditionValues(heap[self.where_conditions])
HavingValues(self) == ConditionValues(heap[self.having_conditions])

SuppliedValues(self) ==
    IF truthy(self.text_query) THEN self.text_variables
    ELSE SetValues(self) \o WhereValues(self) \o HavingValues(self)

IsStatement(self) ==
    /\ self.query_type \in {"SELECT", "UPDATE", "DELETE"}
    /\ build(heap, self).ok

\* The placeholders of what self builds are $1..$n in this order, n the number
\* of params, and params are the supplied values in the same order.
NumberedInOrder(self) ==
    LET r == build(heap, self)
    IN  /\ PlaceholderNumbers(r.sql) = [k \in 1..Len(r.params) |-> k]
        /\ r.params = SuppliedValues(self)

\* SET's placeholders come first, then WHERE's, then HAVING's.
ClausesInOrder(self) ==
    LET r == build(heap, self)
    IN  /\ Len(PlaceholderNumbers(Before(r.sql, {"WHERE", "HAVING"}))) = Len(SetValues(self))
        /\ Len(PlaceholderNumbers(Before(r.sql, {"HAVING"})))
              = Len(SetValues(self)) + Len(WhereValues(self))

ClauseKeywords ==
    <<"SELECT", "DISTINCT ON", "FROM", "JOIN", "WHERE", "GROUP BY", "HAVING",
      "ORDER BY", "LIMIT", "OFFSET">>

ClauseState(self, kw) ==
    CASE kw = "SELECT" -> TRUE
      [] kw = "DISTINCT ON" -> self.distinct_on_fields # <<>>
      [] kw = "FROM" -> TRUE
      [] kw = "JOIN" -> heap[self.join_clauses] # <<>>
      [] kw = "WHERE" -> heap[self.where_conditions] # <<>>
      [] kw = "GROUP BY" -> self.group_by_fields # <<>>
      [] kw = "HAVING" -> heap[self.having_conditions] # <<>>
      [] kw = "ORDER BY" -> heap[self.order_by_clauses] # <<>>
      [] kw = "LIMIT" -> self.limit_value # <<>>
      [] kw = "OFFSET" -> self.offset_value # <<>>

Positions(sql, kw) == {i \in DOMAIN sql : sql[i] = Kw(kw)}

IsSelect(self) ==
    /\ self.query_type = "SELECT"
    /\ self.text_query = <<>>
    /\ build(heap, self).ok

\* C11: in the text of every SELECT that builds, a clause is there exactly
\* when its builder state is not empty, every clause but JOIN is there at
\* most once, and the clauses stand in the order SELECT, DISTINCT ON,
\* fields, FROM, joins, WHERE, GROUP BY, HAVING, ORDER BY, LIMIT, OFFSET,
\* in whatever order the builder's methods were called.
C11_ClauseOrder ==
    \A b \in DOMAIN builders :
        (builders[b].query_type = "SELECT" /\ builders[b].text_query = <<>>) =>
            \A built \in {build(heap, builders[b])} :
                built.ok =>
                    \A at \in {[k \in DOMAIN ClauseKeywords |->
                                    Positions(built.sql, ClauseKeywords[k])]} :
                        /\ \A k \in DOMAIN ClauseKeywords :
                              /\ at[k] # {}
                                    <=> ClauseState(builders[b], ClauseKeywords[k])
                              /\ ClauseKeywords[k] # "JOIN" => Cardinality(at[k]) <= 1
                        /\ \A k, l \in DOMAIN ClauseKeywords :
                              k < l => \A i \in at[k], j \in at[l] : i < j
                        /\ built.sql[1] = Kw("SELECT")

\* order_by was called before join and where, and all three are rendered.
C11_Witness ==
    \E b \in DOMAIN builders :
        /\ IsSelect(builders[b])
        /\ last = [op |-> "join", ok |-> TRUE]
        /\ heap[builders[b].join_clauses] # <<>>
        /\ heap[builders[b].order_by_clauses] # <<>>
        /\ Len(heap[builders[b].join_clauses]) = 1
        /\ (heap[builders[b].where_conditions] # <<>>
             \/ builders[b].limit_value # <<>>)

\* What a failed call leaves behind: the error is a ValueError, and every
\* builder the program holds builds what it built before the call.
FailsAtCall(r) ==
    /\ ~r.ok
    /\ r.err = "ValueError"
    /\ r.local_name = local_name
    /\ \/ r.heap = heap
       \/ \A i \in DOMAIN builders :
             build(r.heap, builders[i]) = build(heap, builders[i])

NotAComparison(x) == x.t \notin {"comparison", "group"}
NotAColumn(x) == x.t # "column"

\* Every call with an invalid argument, on every builder held, fails there.
InvalidCallsFail ==
    \A b \in DOMAIN builders :
        /\ \A conditions \in WhereInputs :
              (\E i \in DOMAIN conditions : NotAComparison(conditions[i])) =>
                 FailsAtCall(QueryBuilder_where(heap, local_name, builders[b], conditions))
        /\ \A conditions \in HavingInputs :
              (\E i \in DOMAIN conditions : NotAComparison(conditions[i])) =>
                 FailsAtCall(QueryBuilder_having(heap, local_name, builders[b], conditions))
        /\ \A x \in JoinInputs :
              NotAComparison(x[2]) =>
                 FailsAtCall(QueryBuilder_join(heap, local_name, builders[b],
                                               x[1], x[2], x[3]))
        /\ \A fields \in GroupByInputs :
              (\E i \in DOMAIN fields : NotAColumn(fields[i])) =>
                 FailsAtCall(QueryBuilder_group_by(heap, local_name, builders[b], fields))
        /\ \A x \in OrderByInputs :
              NotAColumn(x[1]) =>
                 FailsAtCall(QueryBuilder_order_by(heap, local_name, builders[b],
                                                   x[1], x[2]))
        /\ \A fields \in DistinctOnInputs :
              (\E i \in DOMAIN fields : NotAColumn(fields[i])) =>
                 FailsAtCall(QueryBuilder_distinct_on(heap, local_name, builders[b],
                                                      fields))
        /\ \A x \in SetInputs :
              NotAColumn(x[1]) =>
                 FailsAtCall(QueryBuilder_set(heap, local_name, builders[b], x[1], x[2]))

UnderSpecified(self) ==
    \/ self.query_type = "None"
    \/ self.query_type = "SELECT" /\ heap[self.select_fields] = <<>>
    \/ self.query_type \in {"UPDATE", "DELETE"} /\ self.main_model = "None"
    \/ self.query_type = "UPDATE" /\ heap[self.update_values] = <<>>

\* C13: build() fails, and returns no text, for every under-specified
\* builder (no text override set): a SELECT with no fields, an UPDATE or
\* DELETE with no target table, an UPDATE with no SET value, a builder with
\* no query mode.
C13_UnderSpecifiedFails ==
    \A b \in DOMAIN builders :
        (UnderSpecified(builders[b]) /\ builders[b].text_query = <<>>) =>
            /\ ~build(heap, builders[b]).ok
            /\ build(heap, builders[b]).sql = <<>>

\* C14: on a builder on which text(q, v1..vn) has been called, build()
\* returns exactly (q, [v1..vn]) for every string q, whatever was called on
\* the builder before and since; and text() stores the q and the v1..vn it
\* is given, on every builder.
C14_TextVerbatim ==
    \A b \in DOMAIN builders :
        /\ builders[b].text_query # <<>> =>
               build(heap, builders[b])
                  = Built(builders[b].text_query[1], builders[b].text_variables)
        /\ \A x \in TextInputs :
               LET r == QueryBuilder_text(heap, local_name, builders[b],
                                          x.query, x.variables)
               IN  /\ r.ok
                   /\ r.self.text_query = <<x.query>>
                   /\ r.self.text_variables = x.variables

\* The places of the select list that hold a function, in order, and the
\* number k of the alias aggregate_k rendered at a place.
FunctionPlaces(self) ==
    SelectSeq([i \in DOMAIN heap[self.select_raw] |-> i],
              LAMBDA i : is_function_metadata(heap[self.select_raw][i]))

RenderedAlias(self, i) ==
    LET literal == heap[self.select_fields][i]
    IN  literal[Len(literal)].n

\* C15: in every SELECT builder the functions of the select list are
\* rendered 'expr AS aggregate_k' with k = 0, 1, 2, ... in order of
\* appearance, so no alias occurs twice, and the alias stored on each
\* function's metadata is the alias rendered for it in that builder.
C15_Aliases ==
    \A b \in DOMAIN builders :
        builders[b].query_type = "SELECT" =>
            LET places == FunctionPlaces(builders[b])
            IN  \A k \in DOMAIN places :
                   /\ heap[builders[b].select_fields][places[k]]
                         = FunctionObjects[heap[builders[b].select_raw][places[k]].c].literal
                              \o <<Kw("AS"), AggregateName(k - 1)>>
                   /\ local_name[heap[builders[b].select_raw][places[k]].c]
                         = <<RenderedAlias(builders[b], places[k])>>

(***************************************************************************)
(* The function builder: functions.py.                                     *)
(*                                                                         *)
(* A FunctionMetadata object is mutable and is known by its identity, its  *)
(* index in metas.  Function(i) is the reference to the object i.          *)
(***************************************************************************)
FunctionMetadata(literal, original_field, alias) ==
    [literal |-> literal, original_field |-> original_field,
     local_name |-> alias]

\* _column_to_metadata: a function result is returned as it is, the same
\* object; a column gets a new object; anything else raises.
column_to_metadata(ms, field) ==
    IF is_function_metadata(field)
    THEN [ok |-> TRUE, metas |-> ms, ref |-> field.c]
    ELSE IF is_column(field)
    THEN [ok |-> TRUE,
          metas |-> Append(ms, FunctionMetadata(Column_to_query(field), field, <<>>)),
          ref |-> Len(ms) + 1]
    ELSE [ok |-> FALSE, metas |-> ms, ref |-> 0]

\* metadata = self._column_to_metadata(field)
\* metadata.literal = QueryLiteral(f"{prefix}{metadata.literal}{suffix}")
\* return metadata
FunctionBuilder_wrap(ms, prefix, suffix, field) ==
    LET md == column_to_metadata(ms, field)
    IN  IF ~md.ok THEN md
        ELSE [md EXCEPT !.metas[md.ref].literal =
                 <<QueryLiteral(prefix)>> \o @ \o <<QueryLiteral(suffix)>>]

FunctionBuilder_count(ms, field) == FunctionBuilder_wrap(ms, "count(", ")", field)
FunctionBuilder_distinct(ms, field) == FunctionBuilder_wrap(ms, "distinct ", "", field)
FunctionBuilder_lower(ms, field) == FunctionBuilder_wrap(ms, "lower(", ")", field)

\* What the caller passes: a column, a function result it holds, or a value
\* that is neither.
FunctionFieldInputs ==
    {Column(UserDemo, "id"), Column(UserDemo, "name"), Value("invalid field")}
       \cup {Function(i) : i \in DOMAIN metas}

FuncInit ==
    /\ metas = <<>>
    /\ f_call = [n |-> 0, fn |-> "None", arg |-> 0, result |-> 0]

\* The caller receives r from func.fn(field).
FunctionCall(fn, field, r) ==
    /\ f_call.n < MaxFunctionCalls
    /\ metas' = r.metas
    /\ f_call' = [n |-> f_call.n + 1, fn |-> fn,
                  arg |-> IF is_function_metadata(field) THEN field.c ELSE 0,
                  result |-> r.ref]

FuncCount ==
    \E field \in FunctionFieldInputs :
        /\ FunctionCall("count", field, FunctionBuilder_count(metas, field))
        /\ OnlyFunc

FuncDistinct ==
    \E field \in FunctionFieldInputs :
        /\ FunctionCall("distinct", field, FunctionBuilder_distinct(metas, field))
        /\ OnlyFunc

FuncLower ==
    \E field \in FunctionFieldInputs :
        /\ FunctionCall("lower", field, FunctionBuilder_lower(metas, field))
        /\ OnlyFunc

\* select() of a function result: field.local_name = f"aggregate_{k}".
FuncSelected ==
    \E i \in DOMAIN metas :
        /\ metas[i].local_name = <<>>
        /\ metas' = [metas EXCEPT ![i].local_name = <<Len(metas)>>]
        /\ UNCHANGED f_call
        /\ OnlyFunc

FuncNext == FuncCount \/ FuncDistinct \/ FuncLower \/ FuncSelected

\* C16: a function applied to a function result f returns an object other
\* than f and leaves f as it was: its literal, its original field and its
\* alias.
C16_NewNode ==
    [][(f_call'.n # f_call.n /\ f_call'.arg # 0) =>
          /\ f_call'.result # f_call'.arg
          /\ metas'[f_call'.arg] = metas[f_call'.arg]]_vars

(***************************************************************************)
(* DBConnection.exec: session.py.                                          *)
(*                                                                         *)
(* A row fetched is a mapping from the names of the result columns to      *)
(* their values.  What exec returns for a row is a bare decoded value or a *)
(* tuple of them; a decoded value is a model instance or a column's value. *)
(***************************************************************************)
\* model_fields of the table classes selected from; none is excluded.
SelectModelFields == [userdemo |-> {"id", "name", "email"}]

RowKeys == {"id", "name", "email", "aggregate_0", "aggregate_1", "aggregate_2",
            "aggregate_3"}
RowInputs ==
    { [k \in RowKeys |-> <<"r1", k>>], [k \in RowKeys |-> <<"r2", k>>] }

RECURSIVE ValuesInputs(_)
ValuesInputs(n) ==
    IF n = 0 THEN {<<>>}
    ELSE ValuesInputs(n - 1)
           \cup {Append(vs, r) : vs \in {v \in ValuesInputs(n - 1) : Len(v) = n - 1},
                                 r \in RowInputs}

ExecSelectInputs ==
    SelectInputs \cup { <<Table(UserDemo), Column(UserDemo, "email")>>,
                        <<Function("count_id")>> }

Instance(model, value) ==
    [t |-> "instance", m |-> model,
     fields |-> [field \in SelectModelFields[model] |-> value[field]]]
Scalar(v) == [t |-> "scalar", v |-> v]

\* The loop over query.select_raw for one row: a table gives an instance,
\* a column its value; there is no branch for anything else.
RECURSIVE decode_row(_, _)
decode_row(select_raw, value) ==
    IF select_raw = <<>> THEN <<>>
    ELSE LET entry == Head(select_raw)
             rest == decode_row(Tail(select_raw), value)
         IN  IF is_base_table(entry) THEN <<Instance(entry.m, value)>> \o rest
             ELSE IF is_column(entry) THEN <<Scalar(value[entry.c])>> \o rest
             ELSE rest

\* if len(result_value) == 1: result_value[0], else tuple(result_value)
row_result(result_value) ==
    IF Len(result_value) = 1 THEN [t |-> "bare", items |-> result_value]
    ELSE [t |-> "tuple", items |-> result_value]

DBConnection_exec(h, self, values) ==
    LET built == build(h, self)
    IN  IF ~built.ok THEN [t |-> "raised", rows |-> <<>>]
        ELSE IF self.query_type = "SELECT"
        THEN [t |-> "list",
              rows |-> [i \in DOMAIN values |->
                           row_result(decode_row(h[self.select_raw], values[i]))]]
        ELSE [t |-> "None", rows |-> <<>>]

ExecInit ==
    /\ x_query = QueryBuilder_init(<<>>)
    /\ x_selects = 0
    /\ x_values = <<>>
    /\ x_result = [t |-> "not called", rows |-> <<>>]

\* query = query.select(fields)
ExecSelect ==
    \E fields \in ExecSelectInputs :
        /\ x_result.t = "not called"
        /\ x_selects < MaxSelects
        /\ x_selects' = x_selects + 1
        /\ LET r == QueryBuilder_select(x_query.heap, NoLocalNames, x_query.self, fields)
           IN  x_query' = IF r.ok THEN [heap |-> r.heap, self |-> r.self] ELSE x_query
        /\ UNCHANGED <<x_values, x_result>>
        /\ OnlyExec

\* result = await db.exec(query)
Exec ==
    \E values \in ValuesInputs(MaxRows) :
        /\ x_result.t = "not called"
        /\ x_values' = IF build(x_query.heap, x_query.self).ok THEN values ELSE <<>>
        /\ x_result' = DBConnection_exec(x_query.heap, x_query.self, x_values')
        /\ UNCHANGED <<x_query, x_selects>>
        /\ OnlyExec

ExecNext == ExecSelect \/ Exec

\* What the entry of select_raw stands for in the row: the instance of a
\* table, the value of a column, the value under its alias of a function.
AliasKey(select_raw, j) ==
    <<"aggregate_0", "aggregate_1", "aggregate_2", "aggregate_3">>
        [1 + Cardinality({k \in 1..(j - 1) : is_function_metadata(select_raw[k])})]

Decoded(select_raw, j, value) ==
    IF is_base_table(select_raw[j]) THEN Instance(select_raw[j].m, value)
    ELSE IF is_column(select_raw[j]) THEN Scalar(value[select_raw[j].c])
    ELSE Scalar(value[AliasKey(select_raw, j)])

\* C17: exec of a SELECT returns one result per row, and in it one decoded
\* value per entry of select_raw, in order: the bare value for one entry,
\* else a tuple as long as select_raw, for tables, columns and functions.
C17_ExecDecodes ==
    (x_result.t = "list") =>
        LET select_raw == x_query.heap[x_query.self.select_raw]
        IN  /\ Len(x_result.rows) = Len(x_values)
            /\ \A i \in DOMAIN x_result.rows :
                   /\ x_result.rows[i].t
                         = IF Len(select_raw) = 1 THEN "bare" ELSE "tuple"
                   /\ Len(x_result.rows[i].items) = Len(select_raw)
                   /\ \A j \in DOMAIN select_raw :
                          x_result.rows[i].items[j] = Decoded(select_raw, j, x_values[i])

(***************************************************************************)
(* Comparisons: comparison.py.  ComparisonBase turns each comparison       *)
(* method into a call of _compare with its ComparisonType; the _compare of *)
(* a column builds the FieldComparison and is where a comparison with None *)
(* is rewritten.                                                           *)
(***************************************************************************)
\* class ComparisonType(StrEnum)
ComparisonType ==
    ("EQ" :> "=") @@ ("NE" :> "!=") @@ ("LT" :> "<") @@ ("LE" :> "<=")
      @@ ("GT" :> ">") @@ ("GE" :> ">=") @@ ("IN" :> "IN")
      @@ ("NOT_IN" :> "NOT IN") @@ ("LIKE" :> "LIKE")

\* Python's None as a right-hand value.
None == Value("None")

\* The comparison methods of ComparisonBase and the member each passes to
\* _compare.
ComparisonMethods ==
    [__eq__ |-> "EQ", __ne__ |-> "NE", __lt__ |-> "LT", __le__ |-> "LE",
     __gt__ |-> "GT", __ge__ |-> "GE", in_ |-> "IN", not_in |-> "NOT_IN",
     like |-> "LIKE"]

\* ComparisonType.<member>: AttributeError for a name the enum has not.
ComparisonType_member(member) ==
    IF member \in DOMAIN ComparisonType
    THEN [ok |-> TRUE, value |-> ComparisonType[member], err |-> "None"]
    ELSE [ok |-> FALSE, value |-> "", err |-> "AttributeError"]

\* _compare of a column: EQ and NE against None become IS and IS_NOT; the
\* result is FieldComparison(left=self, comparison=..., right=other).
DBFieldClassDefinition_compare(self, comparison, other) ==
    LET member == IF other = None /\ comparison = "EQ" THEN "IS"
                  ELSE IF other = None /\ comparison = "NE" THEN "IS_NOT"
                  ELSE comparison
        type == ComparisonType_member(member)
    IN  IF ~type.ok THEN [ok |-> FALSE, value |-> None, err |-> type.err]
        ELSE [ok |-> TRUE, value |-> FieldComparison(self, type.value, other),
              err |-> "None"]

\* def __eq__(self, other): return self._compare(ComparisonType.EQ, other)
\* and the eight others.
ComparisonBase_method(method, self, other) ==
    DBFieldClassDefinition_compare(self, ComparisonMethods[method], other)

ComparedColumns ==
    {Column(UserDemo, "id"), Column(UserDemo, "name"), Column(UserDemo, "email")}
ComparedValues ==
    {None, Value(""), Value("0"), Value("5"), Value("False"),
     Column(UserDemo, "other_key")}

CompareInit ==
    compared = [method |-> "None", left |-> None, right |-> None,
                result |-> [ok |-> TRUE, value |-> None, err |-> "None"]]

\* result = method(value) for a comparison method of a column
Compare ==
    \E method \in DOMAIN ComparisonMethods, self \in ComparedColumns,
       other \in ComparedValues :
        /\ compared' = [method |-> method, left |-> self, right |-> other,
                        result |-> ComparisonBase_method(method, self, other)]
        /\ OnlyCompare

CompareNext == Compare

\* The operator the claim gives the method: IS and IS NOT against None,
\* else the method's own.
OperatorOf(method, other) ==
    IF other = None /\ method = "__eq__" THEN "IS"
    ELSE IF other = None /\ method = "__ne__" THEN "IS NOT"
    ELSE [__eq__ |-> "=", __ne__ |-> "!=", __lt__ |-> "<", __le__ |-> "<=",
          __gt__ |-> ">", __ge__ |-> ">=", in_ |-> "IN", not_in |-> "NOT IN",
          like |-> "LIKE"][method]

\* C20: col == None gives a comparison with operator IS and col != None one
\* with IS NOT, left the column and right None; against any other value
\* each method gives a comparison with its own operator, left the column
\* and right the value.
C20_NullRewrite ==
    (compared.method # "None") =>
        /\ compared.result.ok
        /\ compared.result.value
             = FieldComparison(compared.left,
                               OperatorOf(compared.method, compared.right),
                               compared.right)

(***************************************************************************)
(* The connection: session.py.                                             *)
(*                                                                         *)
(* A coroutine's position is its stack of frames: the transaction() blocks *)
(* it is inside, and on top the insert or update call it is running.       *)
(* The pc of a frame names the point it has reached:                       *)
(*   "ensure"   _ensure_transaction is about to test in_transaction        *)
(*   "begin"    in_transaction is set, conn.transaction() is being entered *)
(*   "body"     the body of the block, or the loop over the objects        *)
(*   "finally"  the body is left, _ensure_transaction is being left        *)
(*   "end"      in_transaction is reset, conn.transaction() is being left  *)
(***************************************************************************)
Tasks == {"t1", "t2"}

\* model_fields of the table classes: the field flagged primary_key, if any.
ModelClasses ==
    [UserDemo |-> [primary_key |-> <<"id">>],
     ArtifactDemo |-> [primary_key |-> <<"uuid">>],
     LogDemo |-> [primary_key |-> <<>>]]

ObjectClass ==
    [u1 |-> "UserDemo", u2 |-> "UserDemo", a1 |-> "ArtifactDemo", l1 |-> "LogDemo"]

ObjectIds == DOMAIN ObjectClass

InsertInputs ==
    { <<>>, <<"u1">>, <<"u1", "a1", "u2">> }
UpdateInputs == { <<>>, <<"a1", "l1">>, <<"u2", "u1">> }
\* The objects the caller has assigned an attribute of since they were
\* made or last written.
AssignedInputs == {"u1", "a1", "l1"}

_get_primary_key(model) == ModelClasses[model].primary_key

\* Every object in one group, in the order given.
objects_in_one_group(objects) == <<objects>>

\* objects_by_class: the objects of each class, the classes in the order of
\* their first object.
RECURSIVE objects_by_class(_)
objects_by_class(objects) ==
    IF objects = <<>> THEN <<>>
    ELSE LET model == ObjectClass[Head(objects)]
             same(o) == ObjectClass[o] = model
             other(o) == ObjectClass[o] # model
         IN  <<SelectSeq(objects, same)>> \o objects_by_class(SelectSeq(objects, other))

Frame(k, call, pc, groups) ==
    [k |-> k, call |-> call, pc |-> pc, groups |-> groups, opened |-> FALSE,
     exc |-> FALSE]

Top(t) == frames[t][Len(frames[t])]
Pop(t) == SubSeq(frames[t], 1, Len(frames[t]) - 1)
SetTop(t, f) == [frames EXCEPT ![t] = Append(Pop(t), f)]
IsCall(f) == f.k \in {"insert", "update"}
At(t, pc) == frames[t] # <<>> /\ Top(t).pc = pc

\* The coroutine is in the caller's own code: outside every call, at top
\* level or in the body of a transaction() block.
UserRunning(t) ==
    IF frames[t] = <<>> THEN TRUE
    ELSE Top(t).k = "transaction" /\ Top(t).pc = "body"

Depth(t) == Len(SelectSeq(frames[t], LAMBDA f : f.k = "transaction"))

\* "ensure" and "finally" are reached and left without an await: no other
\* coroutine runs while one is there.
Synchronous(t) == At(t, "ensure") \/ At(t, "finally")
Scheduled(t) == t \in tasks /\ \A u \in tasks \ {t} : ~Synchronous(u)

ConnInit(ts) ==
    /\ tasks = ts
    /\ in_transaction = FALSE
    /\ conn_tx = <<>>
    /\ frames = [t \in Tasks |-> <<>>]
    /\ objs = [o \in ObjectIds |->
                  [id |-> <<>>,
                   modified |-> IF o \in AssignedInputs THEN {"name"} ELSE {}]]
    /\ sent = <<>>
    /\ committed = {}
    /\ calls = <<>>
    /\ faulted = FALSE
    /\ entered = 0

\* async with db.transaction(): in_transaction is set, then
\* conn.transaction() is entered.
Transaction ==
    \E t \in tasks :
        /\ Scheduled(t) /\ UserRunning(t)
        /\ entered < MaxBlocks
        /\ entered' = entered + 1
        /\ in_transaction' = TRUE
        /\ frames' = [frames EXCEPT ![t] =
                         Append(@, [Frame("transaction", 0, "begin", <<>>)
                                       EXCEPT !.opened = TRUE])]
        /\ UNCHANGED <<tasks, conn_tx, objs, sent, committed, calls, faulted>>
        /\ OnlyConn

NewCall(kind, t, objects) ==
    [kind |-> kind, task |-> t, objects |-> objects,
     modified |-> [i \in DOMAIN objects |-> objs[objects[i]].modified],
     ids |-> [i \in DOMAIN objects |-> objs[objects[i]].id],
     clean |-> conn_tx = <<>> /\ ~in_transaction,
     in_block |-> Depth(t) > 0,
     begun |-> 0,
     outcome |-> IF objects = <<>> THEN "returned" ELSE "running"]

\* await db.insert(objects): nothing to do for no objects, else the objects
\* are grouped by class and the first group is started.
InsertCall ==
    \E t \in tasks, objects \in InsertInputs :
        /\ Scheduled(t) /\ UserRunning(t)
        /\ Len(calls) < MaxDBCalls
        /\ calls' = Append(calls, NewCall("insert", t, objects))
        /\ frames' = IF objects = <<>> THEN frames
                     ELSE [frames EXCEPT ![t] =
                              Append(@, Frame("insert", Len(calls) + 1, "ensure",
                                              objects_by_class(objects)))]
        /\ UNCHANGED <<tasks, in_transaction, conn_tx, objs, sent, committed,
                       faulted, entered>>
        /\ OnlyConn

\* await db.update(objects): one _ensure_transaction around all the objects.
UpdateCall ==
    \E t \in tasks, objects \in UpdateInputs :
        /\ Scheduled(t) /\ UserRunning(t)
        /\ Len(calls) < MaxDBCalls
        /\ calls' = Append(calls, NewCall("update", t, objects))
        /\ frames' = IF objects = <<>> THEN frames
                     ELSE [frames EXCEPT ![t] =
                              Append(@, Frame("update", Len(calls) + 1, "ensure",
                                              <<objects>>))]
        /\ UNCHANGED <<tasks, in_transaction, conn_tx, objs, sent, committed,
                       faulted, entered>>
        /\ OnlyConn

\* _ensure_transaction: a transaction is entered only if in_transaction is
\* not set; transaction() then sets it before conn.transaction() is entered.
EnsureTransaction ==
    \E t \in tasks :
        /\ t \in tasks /\ At(t, "ensure")
        /\ IF ~in_transaction
           THEN /\ in_transaction' = TRUE
                /\ frames' = SetTop(t, [Top(t) EXCEPT !.pc = "begin", !.opened = TRUE])
           ELSE /\ in_transaction' = in_transaction
                /\ frames' = SetTop(t, [Top(t) EXCEPT !.pc = "body", !.opened = FALSE])
        /\ UNCHANGED <<tasks, conn_tx, objs, sent, committed, calls, faulted, entered>>
        /\ OnlyConn

\* conn.transaction() is entered: the driver has begun a transaction (a
\* savepoint, inside another one).
Begin ==
    \E t \in tasks :
        /\ Scheduled(t) /\ At(t, "begin")
        /\ conn_tx' = Append(conn_tx, [call |-> Top(t).call, task |-> t, stmts |-> {}])
        /\ frames' = SetTop(t, [Top(t) EXCEPT !.pc = "body"])
        /\ calls' = IF IsCall(Top(t))
                    THEN [calls EXCEPT ![Top(t).call].begun = @ + 1]
                    ELSE calls
        /\ UNCHANGED <<tasks, in_transaction, objs, sent, committed, faulted, entered>>
        /\ OnlyConn

\* Entering conn.transaction() raises.  The try of transaction() has not
\* been entered, so its finally does not run; the exception leaves the
\* block or the call.
BeginFails ==
    \E t \in tasks :
        /\ Scheduled(t) /\ At(t, "begin")
        /\ ~faulted
        /\ faulted' = TRUE
        /\ frames' = [frames EXCEPT ![t] = Pop(t)]
        /\ calls' = IF IsCall(Top(t))
                    THEN [calls EXCEPT ![Top(t).call].outcome = "raised"]
                    ELSE calls
        /\ UNCHANGED <<tasks, in_transaction, conn_tx, objs, sent, committed, entered>>
        /\ OnlyConn

\* The statement s has been executed: it belongs to the innermost open
\* driver transaction, or is committed at once when there is none.
Send(s) ==
    /\ sent' = Append(sent, s)
    /\ IF conn_tx = <<>>
       THEN /\ committed' = committed \cup {Len(sent) + 1}
            /\ conn_tx' = conn_tx
       ELSE /\ committed' = committed
            /\ conn_tx' = [conn_tx EXCEPT ![Len(conn_tx)].stmts = @ \cup {Len(sent) + 1}]

InsertedSoFar == Len(SelectSeq(sent, LAMBDA s : s.kind = "INSERT"))

\* A statement that sets every field of the object.
Statement_sets_every_field(kind, call, obj, where_column, attributes) ==
    [kind |-> kind, call |-> call, obj |-> obj,
     where_column |-> where_column, attributes |-> {"name", "email"},
     where_value |-> IF kind = "UPDATE" THEN objs[obj].id ELSE <<>>,
     returned |-> IF kind = "INSERT" /\ _get_primary_key(ObjectClass[obj]) # <<>>
                  THEN <<InsertedSoFar + 1>> ELSE <<>>,
     in_tx |-> conn_tx # <<>>,
     own |-> \E i \in DOMAIN conn_tx : conn_tx[i].call = call]

\* The statement as the database has executed it; where_value is $1 of an
\* UPDATE, getattr(obj, primary_key); returned is the row of
\* RETURNING <primary key>: the key the database gave the new row.
Statement(kind, call, obj, where_column, attributes) ==
    [kind |-> kind, call |-> call, obj |-> obj,
     where_column |-> where_column, attributes |-> attributes,
     where_value |-> IF kind = "UPDATE" THEN objs[obj].id ELSE <<>>,
     returned |-> IF kind = "INSERT" /\ _get_primary_key(ObjectClass[obj]) # <<>>
                  THEN <<InsertedSoFar + 1>> ELSE <<>>,
     in_tx |-> conn_tx # <<>>,
     own |-> \E i \in DOMAIN conn_tx : conn_tx[i].call = call]

NextObject(f) ==
    IF Tail(f.groups[1]) = <<>> THEN [f EXCEPT !.pc = "finally"]
    ELSE [f EXCEPT !.groups[1] = Tail(@)]


\* insert: one INSERT for the next object of the group; the key the
\* database returns is assigned and the modified attributes are cleared.
InsertRow ==
    \E t \in tasks :
        /\ Scheduled(t) /\ At(t, "body") /\ Top(t).k = "insert"
        /\ LET f == Top(t)
               obj == Head(f.groups[1])
               primary_key == _get_primary_key(ObjectClass[obj])
               result == Statement("INSERT", f.call, obj, <<>>, {})
           IN  /\ Send(result)
               /\ objs' = [objs EXCEPT
                              ![obj].id = IF primary_key # <<>> /\ result.returned # <<>>
                                          THEN result.returned ELSE @,
                              ![obj].modified = {}]
               /\ frames' = SetTop(t, NextObject(f))
        /\ UNCHANGED <<tasks, in_transaction, calls, faulted, entered>>
        /\ OnlyConn

\* update: an object without modified attributes is passed over; a model
\* without a primary key raises; otherwise one UPDATE ... WHERE id = $1 is
\* sent and the modified attributes are cleared.
UpdateRow ==
    \E t \in tasks :
        /\ Scheduled(t) /\ At(t, "body") /\ Top(t).k = "update"
        /\ LET f == Top(t)
               obj == Head(f.groups[1])
               modified_attrs == objs[obj].modified
               primary_key == _get_primary_key(ObjectClass[obj])
           IN  IF modified_attrs = {}
               THEN /\ frames' = SetTop(t, NextObject(f))
                    /\ UNCHANGED <<objs, sent, committed, conn_tx>>
               ELSE IF primary_key = <<>>
               THEN /\ frames' = SetTop(t, [f EXCEPT !.pc = "finally", !.exc = TRUE])
                    /\ UNCHANGED <<objs, sent, committed, conn_tx>>
               ELSE /\ Send(Statement("UPDATE", f.call, obj, <<"id">>, modified_attrs))
                    /\ objs' = [objs EXCEPT ![obj].modified = {}]
                    /\ frames' = SetTop(t, NextObject(f))
        /\ UNCHANGED <<tasks, in_transaction, calls, faulted, entered>>
        /\ OnlyConn

\* The statement for the next object raises (a constraint violation, a lost
\* connection): the loop is left with the exception.
StatementFails ==
    \E t \in tasks :
        /\ Scheduled(t) /\ At(t, "body") /\ IsCall(Top(t))
        /\ ~faulted
        /\ Top(t).k = "update" =>
               /\ objs[Head(Top(t).groups[1])].modified # {}
               /\ _get_primary_key(ObjectClass[Head(Top(t).groups[1])]) # <<>>
        /\ faulted' = TRUE
        /\ frames' = SetTop(t, [Top(t) EXCEPT !.pc = "finally", !.exc = TRUE])
        /\ UNCHANGED <<tasks, in_transaction, conn_tx, objs, sent, committed, calls, entered>>
        /\ OnlyConn

\* What a call does once _ensure_transaction is left: the exception goes on
\* to the caller, or the next class group is started, or the call returns.
Leave(t, f) ==
    IF f.exc
    THEN /\ frames' = [frames EXCEPT ![t] = Pop(t)]
         /\ calls' = [calls EXCEPT ![f.call].outcome = "raised"]
    ELSE IF Len(f.groups) > 1
    THEN /\ frames' = SetTop(t, [f EXCEPT !.groups = Tail(@), !.pc = "ensure",
                                          !.opened = FALSE])
         /\ calls' = calls
    ELSE /\ frames' = [frames EXCEPT ![t] = Pop(t)]
         /\ calls' = [calls EXCEPT ![f.call].outcome = "returned"]

\* _ensure_transaction is left.  If it entered transaction(), the finally of
\* transaction() resets in_transaction and conn.transaction() is then left;
\* if it did not, there is nothing to leave.
Finally ==
    \E t \in tasks :
        /\ t \in tasks /\ At(t, "finally")
        /\ IF Top(t).opened
           THEN /\ in_transaction' = FALSE
                /\ frames' = SetTop(t, [Top(t) EXCEPT !.pc = "end"])
                /\ calls' = calls
           ELSE /\ in_transaction' = in_transaction
                /\ Leave(t, Top(t))
        /\ UNCHANGED <<tasks, conn_tx, objs, sent, committed, faulted, entered>>
        /\ OnlyConn

\* The body of a transaction() block is left, normally or by an exception:
\* the finally resets in_transaction, conn.transaction() is then left.
ExitTransaction ==
    \E t \in tasks, exc \in BOOLEAN :
        /\ Scheduled(t) /\ At(t, "body") /\ Top(t).k = "transaction"
        /\ in_transaction' = FALSE
        /\ frames' = SetTop(t, [Top(t) EXCEPT !.pc = "end", !.exc = exc])
        /\ UNCHANGED <<tasks, conn_tx, objs, sent, committed, calls, faulted, entered>>
        /\ OnlyConn

\* conn.transaction() is left: the driver commits, or rolls back when an
\* exception is passing.  What an inner transaction commits becomes part of
\* the one around it.
End ==
    \E t \in tasks :
        /\ Scheduled(t) /\ At(t, "end")
        /\ conn_tx # <<>>
        /\ LET f == Top(t)
               tx == conn_tx[Len(conn_tx)]
               outer == SubSeq(conn_tx, 1, Len(conn_tx) - 1)
           IN  /\ IF f.exc THEN /\ conn_tx' = outer
                                /\ committed' = committed
                  ELSE IF outer = <<>>
                  THEN /\ conn_tx' = outer
                       /\ committed' = committed \cup tx.stmts
                  ELSE /\ conn_tx' = [outer EXCEPT ![Len(outer)].stmts = @ \cup tx.stmts]
                       /\ committed' = committed
               /\ IF IsCall(f) THEN Leave(t, f)
                  ELSE /\ frames' = [frames EXCEPT ![t] = Pop(t)]
                       /\ calls' = calls
        /\ UNCHANGED <<tasks, in_transaction, objs, sent, faulted, entered>>
        /\ OnlyConn

ConnNext ==
    \/ Transaction \/ InsertCall \/ UpdateCall
    \/ EnsureTransaction \/ Begin \/ BeginFails \/ InsertRow \/ UpdateRow
    \/ StatementFails \/ Finally \/ ExitTransaction \/ End

\* The call c is over in the next state and was not in this one.
Exits(c) ==
    /\ c \in DOMAIN calls'
    /\ calls'[c].outcome # "running"
    /\ c \in DOMAIN calls => calls[c].outcome = "running"

\* The UPDATE statements the call c has sent for the object o.
UpdatesOf(c, o, stmts) ==
    {i \in DOMAIN stmts :
        stmts[i].kind = "UPDATE" /\ stmts[i].call = c /\ stmts[i].obj = o}

\* The update call c is over in this step.
UpdateOver(c) ==
    /\ Exits(c)
    /\ calls'[c].kind = "update"

\* The call has raised, and the database has raised an error.
DatabaseError(c) == calls'[c].outcome = "raised" /\ faulted'

\* The object at place i of the call's objects had a modified attribute
\* when update was called; the model has no field that is excluded.
Dirty(c, i) == calls'[c].modified[i] # {}

\* One UPDATE for each object that had a modified attribute, setting those
\* attributes and no other, and none for any other object; the objects
\* updated have no modified attribute left.
UpdateEffects(c) ==
    LET objects == calls'[c].objects
    IN  \A i \in DOMAIN objects :
           LET updates == UpdatesOf(c, objects[i], sent')
           IN  IF Dirty(c, i)
               THEN /\ Cardinality(updates) = 1
                    /\ \A u \in updates :
                           sent'[u].attributes = calls'[c].modified[i]
                    /\ objs'[objects[i]].modified = {}
               ELSE updates = {}

HasPrimaryKey(o) == _get_primary_key(ObjectClass[o]) # <<>>

RowsOf(c, stmts) ==
    LET own == SelectSeq(stmts, LAMBDA s : s.kind = "INSERT" /\ s.call = c)
    IN  [i \in DOMAIN own |-> own[i].obj]
RowFor(c, o, stmts) ==
    CHOOSE i \in DOMAIN stmts :
        stmts[i].kind = "INSERT" /\ stmts[i].call = c /\ stmts[i].obj = o

InputPosition(objects, o) == CHOOSE i \in DOMAIN objects : objects[i] = o
FirstOfClass(objects, o) ==
    CHOOSE i \in DOMAIN objects :
        /\ ObjectClass[objects[i]] = ObjectClass[o]
        /\ \A j \in 1..(i - 1) : ObjectClass[objects[j]] # ObjectClass[o]

\* One row per object; the classes in the order of their first object and,
\* within a class, the objects in input order.
RowsByClass(objects, rows) ==
    /\ Len(rows) = Len(objects)
    /\ {rows[i] : i \in DOMAIN rows} = {objects[i] : i \in DOMAIN objects}
    /\ \A i, j \in DOMAIN rows :
           i < j =>
              IF ObjectClass[rows[i]] = ObjectClass[rows[j]]
              THEN InputPosition(objects, rows[i]) < InputPosition(objects, rows[j])
              ELSE FirstOfClass(objects, rows[i]) < FirstOfClass(objects, rows[j])

\* The insert call c returns in this step.
InsertReturns(c) ==
    /\ Exits(c)
    /\ calls'[c].kind = "insert"
    /\ calls'[c].outcome = "returned"

\* Each object holds the key returned for its own row and has no modified
\* attribute left; no objects, no statement and no transaction.
InsertEffects(c) ==
    LET objects == calls'[c].objects
    IN  /\ \A i \in DOMAIN objects :
               /\ _get_primary_key(ObjectClass[objects[i]]) # <<>> =>
                      objs'[objects[i]].id = sent'[RowFor(c, objects[i], sent')].returned
               /\ objs'[objects[i]].modified = {}
        /\ objects = <<>> =>
               /\ sent' = sent
               /\ calls'[c].begun = 0
               /\ in_transaction' = in_transaction /\ conn_tx' = conn_tx

\* C18: when insert(objects) returns, one row has been inserted per object,
\* class by class in the order of each class's first object and in input
\* order within a class; each object holds the key returned for its own row
\* and has no modified attribute; insert([]) sends nothing and opens no
\* transaction.
C18_Insert ==
    [][\A c \in DOMAIN calls' :
          InsertReturns(c) =>
              /\ RowsByClass(calls'[c].objects, RowsOf(c, sent'))
              /\ InsertEffects(c)]_vars

\* C18 as stated: the rows are inserted in input order.
C18_InsertInInputOrder ==
    [][\A c \in DOMAIN calls' :
          InsertReturns(c) =>
              /\ RowsOf(c, sent') = calls'[c].objects
              /\ InsertEffects(c)]_vars

C18_Witness ==
    \E c \in DOMAIN calls :
        /\ calls[c].kind = "insert" /\ calls[c].outcome = "returned"
        /\ calls[c].objects = <<"u1", "a1", "u2">>
        /\ RowsOf(c, sent) = <<"u1", "u2", "a1">>
        /\ objs["u2"].id # <<>> /\ objs["u2"].id # objs["u1"].id


Returns_(c) == Exits(c) /\ calls'[c].outcome = "returned"

\* C3: an insert or update called while no transaction is open (none begun
\* on the driver, in_transaction false) sends every statement inside a
\* transaction that the call itself opened, and whenever the call is over,
\* by a return, by a statement's exception or by a failure to begin, no
\* transaction of the call is left open and in_transaction is false.
C3_AutoTransaction ==
    /\ [](\A i \in DOMAIN sent : calls[sent[i].call].clean => sent[i].own)
    /\ [][\A c \in DOMAIN calls' :
             (Exits(c) /\ calls'[c].clean) =>
                 /\ in_transaction' = FALSE
                 /\ \A i \in DOMAIN conn_tx' : conn_tx'[i].call # c]_vars

\* C4: an insert or update called in the body of a transaction() block
\* begins no driver transaction of its own, and when it returns the
\* transaction of the block is still open and in_transaction is still true.
C4_InsideBlock ==
    /\ [](\A c \in DOMAIN calls : calls[c].in_block => calls[c].begun = 0)
    /\ [][\A c \in DOMAIN calls' :
             (Returns_(c) /\ calls'[c].in_block) =>
                 /\ in_transaction' = TRUE
                 /\ conn_tx' # <<>>]_vars

\* The blocks of transaction() that have been entered and whose finally has
\* not run, and those being entered or left (in_transaction is set before
\* conn.transaction() is entered and reset before it is left).
OpenBlocks ==
    {<<t, i>> \in Tasks \X (1..(MaxBlocks + 1)) :
        /\ i \in DOMAIN frames[t]
        /\ frames[t][i].opened
        /\ frames[t][i].pc \in {"body", "finally"}}
Switching ==
    \E t \in Tasks : \E i \in DOMAIN frames[t] :
        frames[t][i].opened /\ frames[t][i].pc \in {"begin", "end"}

\* C26: in_transaction is true exactly while a transaction begun through
\* transaction() is open, so also after an inner block exits while the
\* outer one is open.
C26_FlagTracksOpenTransaction ==
    ~Switching => (in_transaction <=> OpenBlocks # {})

\* The statements of the call c that the database has made durable.
CommittedOf(c, stmts, done) == {i \in done : stmts[i].call = c}

\* The insert call c, made with no transaction open, is over with an
\* exception in this step.
InsertFails(c) ==
    /\ Exits(c)
    /\ calls'[c].kind = "insert"
    /\ calls'[c].clean
    /\ calls'[c].outcome = "raised"

\* C27: an insert call made outside any transaction is atomic over all its
\* objects, of one class or several: when it fails, no row of the call is
\* committed.
C27_InsertAtomic ==
    [][\A c \in DOMAIN calls' :
          InsertFails(c) => CommittedOf(c, sent', committed') = {}]_vars

\* The statements of the call c for the object o that have been rolled
\* back: sent, not committed and in no transaction still open.
RolledBack(c, o, stmts, done, open) ==
    {i \in DOMAIN stmts :
        /\ stmts[i].call = c /\ stmts[i].obj = o
        /\ i \notin done
        /\ \A k \in DOMAIN open : i \notin open[k].stmts}

\* C28: when insert or update fails on a later object and its transaction
\* is rolled back, each object whose row was written earlier in the call is
\* as it was before the call: the same primary key, the same modified
\* attributes.
C28_EarlierObjectsRestored ==
    [][\A c \in DOMAIN calls' :
          (Exits(c) /\ calls'[c].outcome = "raised") =>
              \A i \in DOMAIN calls'[c].objects :
                  LET o == calls'[c].objects[i]
                  IN  RolledBack(c, o, sent', committed', conn_tx') # {} =>
                          /\ objs'[o].id = calls'[c].ids[i]
                          /\ objs'[o].modified = calls'[c].modified[i]]_vars

\* C29: an UPDATE filters on the primary-key column of the object's model,
\* whatever its name, with the object's primary-key value as the parameter;
\* for a model without a primary key no UPDATE is sent.
C29_WherePrimaryKey ==
    [][\A i \in DOMAIN sent' \ DOMAIN sent :
          sent'[i].kind = "UPDATE" =>
              /\ HasPrimaryKey(sent'[i].obj)
              /\ sent'[i].where_column = _get_primary_key(ObjectClass[sent'[i].obj])
              /\ sent'[i].where_value = objs[sent'[i].obj].id]_vars

(***************************************************************************)
(* lru_cache_async: io.py.  The decorated function is synchronous: it      *)
(* calls the coroutine function, hands the coroutine to ensure_future and  *)
(* returns the future; functools.lru_cache keeps the futures by arguments. *)
(* Futures are numbered in the order the coroutine function was started.   *)
(***************************************************************************)
CacheArgs == {"a", "b"}

\* lru_cache(maxsize=maxsize)
maxsize == 1

MaxCacheCalls == 4
CacheCallers == 1..MaxCacheCalls

NoOutcome == <<"None", 0>>
Future(args) == [args |-> args, state |-> "PENDING", outcome |-> NoOutcome]

\* The entry of the cache for the arguments: its places (at most one).
CacheEntries(cache, args) == {i \in DOMAIN cache : cache[i].args = args}

Remove(s, i) == SubSeq(s, 1, i - 1) \o SubSeq(s, i + 1, Len(s))

\* lru_cache on a miss: the result is stored as the most recently used
\* entry and the least recently used one is dropped when the cache is full.
Store(cache, entry) ==
    LET stored == Append(cache, entry)
    IN  IF Len(stored) > maxsize THEN Tail(stored) ELSE stored

\* An internal that starts the function again when the cached call failed.
internal_retries_failed(cache, futures, args) ==
    LET found == CacheEntries(cache, args)
        failed == {i \in found : futures[cache[i].fut].outcome[1] = "exception"}
    IN  IF found # {} /\ failed = {}
        THEN LET i == CHOOSE i \in found : TRUE
             IN  [cache |-> Append(Remove(cache, i), cache[i]),
                  futures |-> futures, fut |-> cache[i].fut]
        ELSE LET kept == IF found = {} THEN cache
                         ELSE Remove(cache, CHOOSE i \in found : TRUE)
             IN  [cache |-> Store(kept, [args |-> args, fut |-> Len(futures) + 1]),
                  futures |-> Append(futures, Future(args)),
                  fut |-> Len(futures) + 1]

\* internal(*args): on a hit lru_cache returns the stored future and makes
\* its entry the most recently used; on a miss the coroutine function is
\* called, ensure_future makes the future and lru_cache stores it.
internal(cache, futures, args) ==
    LET found == CacheEntries(cache, args)
    IN  IF found # {}
        THEN LET i == CHOOSE i \in found : TRUE
             IN  [cache |-> Append(Remove(cache, i), cache[i]),
                  futures |-> futures, fut |-> cache[i].fut]
        ELSE [cache |-> Store(cache, [args |-> args, fut |-> Len(futures) + 1]),
              futures |-> Append(futures, Future(args)),
              fut |-> Len(futures) + 1]

CacheInit ==
    /\ lc_cache = <<>>
    /\ lc_futures = <<>>
    /\ lc_callers = [c \in CacheCallers |->
                        [pc |-> "idle", args |-> "None", fut |-> 0, found |-> 0,
                         got |-> NoOutcome]]

\* result = await function(args), up to the await: the next caller calls
\* the decorated function.  found is the future the cache held for the
\* arguments when the call was made, 0 if none.
CachedCall ==
    \E c \in CacheCallers, args \in CacheArgs :
        /\ lc_callers[c].pc = "idle"
        /\ \A b \in 1..(c - 1) : lc_callers[b].pc # "idle"
        /\ LET r == internal(lc_cache, lc_futures, args)
               found == CacheEntries(lc_cache, args)
           IN  /\ lc_cache' = r.cache
               /\ lc_futures' = r.futures
               /\ lc_callers' = [lc_callers EXCEPT ![c] =
                      [pc |-> "awaiting", args |-> args, fut |-> r.fut,
                       found |-> IF found = {} THEN 0
                                 ELSE lc_cache[CHOOSE i \in found : TRUE].fut,
                       got |-> NoOutcome]]
        /\ OnlyCache

\* The coroutine of a future returns or raises.  Each run of the function
\* has an outcome of its own: the one of the n-th run is <<kind, n>>.
FutureDone ==
    \E f \in DOMAIN lc_futures, kind \in {"result", "exception"} :
        /\ lc_futures[f].state = "PENDING"
        /\ lc_futures' = [lc_futures EXCEPT ![f] =
                              [@ EXCEPT !.state = "FINISHED", !.outcome = <<kind, f>>]]
        /\ UNCHANGED <<lc_cache, lc_callers>>
        /\ OnlyCache

\* A caller's await ends: it gets the result of its future, or the
\* exception is raised in it.
Resume ==
    \E c \in CacheCallers :
        /\ lc_callers[c].pc = "awaiting"
        /\ lc_futures[lc_callers[c].fut].state # "PENDING"
        /\ lc_callers' = [lc_callers EXCEPT
                              ![c].pc = "done",
                              ![c].got = lc_futures[lc_callers[c].fut].outcome]
        /\ UNCHANGED <<lc_cache, lc_futures>>
        /\ OnlyCache

\* A caller is cancelled while it awaits: asyncio cancels the future it is
\* waiting for, which stays in the cache.
CallerCancelled ==
    \E c \in CacheCallers :
        /\ lc_callers[c].pc = "awaiting"
        /\ lc_futures[lc_callers[c].fut].state = "PENDING"
        /\ lc_futures' = [lc_futures EXCEPT ![lc_callers[c].fut] =
                              [@ EXCEPT !.state = "CANCELLED",
                                        !.outcome = <<"CancelledError", 0>>]]
        /\ lc_callers' = [lc_callers EXCEPT
                              ![c].pc = "done",
                              ![c].got = <<"CancelledError", 0>>]
        /\ UNCHANGED lc_cache
        /\ OnlyCache

CacheNext == CachedCall \/ FutureDone \/ Resume \/ CallerCancelled

Called == {c \in CacheCallers : lc_callers[c].pc # "idle"}

\* C30: a call made while the cache holds an entry for its arguments starts
\* nothing and is handed the future of that entry, also when that future
\* has failed; the coroutine function is started once for each call that
\* found no entry; all callers of one future get the same outcome, the one
\* of that future.
C30_StartedOnce ==
    /\ \A c \in Called :
           lc_callers[c].found # 0 => lc_callers[c].fut = lc_callers[c].found
    /\ Len(lc_futures) = Cardinality({c \in Called : lc_callers[c].found = 0})
    /\ \A c \in Called : lc_futures[lc_callers[c].fut].args = lc_callers[c].args
    /\ \A c, d \in Called :
           (c # d /\ lc_callers[c].fut = lc_callers[d].fut) =>
               /\ lc_callers[c].found # 0 \/ lc_callers[d].found # 0
               /\ (lc_callers[c].pc = "done" /\ lc_callers[d].pc = "done") =>
                      lc_callers[c].got = lc_callers[d].got
    /\ \A c \in Called :
           lc_callers[c].pc = "done" =>
               lc_callers[c].got = lc_futures[lc_callers[c].fut].outcome

C30_Witness ==
    \E c, d \in Called :
        /\ c < d
        /\ lc_callers[c].found = 0
        /\ lc_callers[d].found = lc_callers[c].fut
        /\ lc_callers[c].pc = "done" /\ lc_callers[d].pc = "done"
        /\ lc_callers[d].got = <<"exception", lc_callers[c].fut>>
        /\ lc_callers[c].got = lc_callers[d].got
        /\ Len(lc_futures) = 1

(***************************************************************************)
(* Specifications.  Each one runs its own part and holds the other parts   *)
(* at rest.                                                                *)
(***************************************************************************)
MergeIdle ==
    /\ m_ops = <<>>
    /\ m_out = NoResults
    /\ m_pc = "idle"

PlannerIdle ==
    /\ prev_schema = <<>>
    /\ next_schema = <<>>
    /\ db_prev = <<>>
    /\ db_next = <<>>
    /\ ord_prev = <<>>
    /\ ord_next = <<>>
    /\ actions = <<>>
    /\ pl_pc = "idle"

BuilderIdle ==
    /\ style = "idle"
    /\ heap = <<>>
    /\ builders = <<>>
    /\ local_name = NoLocalNames
    /\ ncalls = 0
    /\ last = [op |-> "None", ok |-> TRUE]
    /\ born = <<>>

ConnIdle == ConnInit({})

Idle ==
    /\ MergeIdle /\ PlannerIdle /\ BuilderIdle /\ ConnIdle /\ FuncInit /\ ExecInit
    /\ CompareInit /\ NodeInit /\ CacheInit

InitMerge ==
    /\ MergeInit /\ PlannerIdle /\ BuilderIdle /\ ConnIdle /\ FuncInit /\ ExecInit
    /\ CompareInit /\ NodeInit /\ CacheInit
InitPlanner ==
    /\ PlannerInit /\ MergeIdle /\ BuilderIdle /\ ConnIdle /\ FuncInit /\ ExecInit
    /\ CompareInit /\ NodeInit /\ CacheInit
InitBuilder ==
    /\ BuilderInit("branch") /\ MergeIdle /\ PlannerIdle /\ ConnIdle /\ FuncInit /\ ExecInit
    /\ CompareInit /\ NodeInit /\ CacheInit
InitChain ==
    /\ BuilderInit("chain") /\ MergeIdle /\ PlannerIdle /\ ConnIdle /\ FuncInit /\ ExecInit
    /\ CompareInit /\ NodeInit /\ CacheInit
InitConn ==
    /\ ConnInit({"t1"}) /\ MergeIdle /\ PlannerIdle /\ BuilderIdle /\ FuncInit /\ ExecInit
    /\ CompareInit /\ NodeInit /\ CacheInit
InitFunc == Idle
InitExec == Idle
InitCompare == Idle
InitCache == Idle
InitNode == Idle

SpecMerge == InitMerge /\ [][MergeNext]_vars
SpecPlanner == InitPlanner /\ [][PlannerNext]_vars
SpecBuilder == InitBuilder /\ [][BuilderNext]_vars
SpecChain == InitChain /\ [][BuilderNext]_vars
SpecConn == InitConn /\ [][ConnNext]_vars
SpecFunc == InitFunc /\ [][FuncNext]_vars
SpecExec == InitExec /\ [][ExecNext]_vars
SpecCompare == InitCompare /\ [][CompareNext]_vars
SpecNode == InitNode /\ [][NodeNext]_vars
SpecCache == InitCache /\ [][CacheNext]_vars

====
